---- MODULE Spec2Model ----
(***************************************************************************)
(* A model of ConfigParser (config_parser.h / config_parser.cpp).          *)
(*                                                                         *)
(* A std::string is a sequence of one-character strings.  Indexes into a   *)
(* string are the 0-based indexes of the C++ code; At(s, i) reads s[i].    *)
(* The file is a text (a sequence of characters holding "\n"), the         *)
(* constructor is an Open step followed by one ParseLine step for every    *)
(* iteration of its loop over the declarations, and every getter is one    *)
(* action.                                                                 *)
(***************************************************************************)
EXTENDS Integers, Sequences, FiniteSets, TLC

VARIABLES
    file,             \* the file system: [openable, text] of _config_path
    pc,               \* "new" | "parsing" | "done": position of the constructor
    input_lines,      \* the constructor's local input_lines
    _line_number,     \* ConfigParser::_line_number
    _var_map,         \* ConfigParser::_var_map, a function name -> Variable
    _error_messages,  \* ConfigParser::_error_messages
    calls,            \* number of getter calls made so far
    last              \* the last getter call: [op, name, ret]

vars == <<file, pc, input_lines, _line_number, _var_map, _error_messages, calls, last>>

(***************************************************************************)
(* Characters and std::string primitives                                   *)
(***************************************************************************)

\* std::isspace in the "C" locale: space, \t, \n, \v, \f, \r (there is no
\* escape for \v in a TLA+ string; no input of the model holds one).
is_space(c) == c \in {" ", "\t", "\n", "\f", "\r"}

\* what s[size()] reads: the terminating null character
NUL == "NUL"

\* std::string::npos
npos == -1

Min(a, b) == IF a < b THEN a ELSE b

\* s[i] for 0 <= i <= size()
At(s, i) == IF i < Len(s) THEN s[i + 1] ELSE NUL

\* s.substr(pos, n), pos <= size()
Substr(s, pos, n) == SubSeq(s, pos + 1, Min(pos + n, Len(s)))

\* s.substr(pos)
SubstrFrom(s, pos) == SubSeq(s, pos + 1, Len(s))

\* s.find(ch, start): the first index >= start holding ch, or npos
Find(s, ch, start) ==
    IF \E j \in start..(Len(s) - 1) : s[j + 1] = ch
    THEN CHOOSE j \in start..(Len(s) - 1) :
             s[j + 1] = ch /\ \A k \in start..(j - 1) : s[k + 1] # ch
    ELSE npos

\* s.back() of a non-empty string
Back(s) == s[Len(s)]

\* Trims from left
Ltrim(s) ==
    IF \A j \in 1..Len(s) : is_space(s[j]) THEN <<>>
    ELSE SubSeq(s, CHOOSE j \in 1..Len(s) :
                       ~is_space(s[j]) /\ \A k \in 1..(j - 1) : is_space(s[k]),
                Len(s))

\* Trims from right
Rtrim(s) ==
    IF \A j \in 1..Len(s) : is_space(s[j]) THEN <<>>
    ELSE SubSeq(s, 1, CHOOSE j \in 1..Len(s) :
                          ~is_space(s[j]) /\ \A k \in (j + 1)..Len(s) : is_space(s[k]))

\* Trims from both sides
Trim(s) == Rtrim(Ltrim(s))

RECURSIVE SplitLoop(_, _, _, _, _)

\* one iteration of SplitString's loop, with found_i already searched
SplitStep(input_string, delim, retain_empty, start_i, output_vector, found_i) ==
    LET len == IF found_i = npos THEN Len(input_string) - start_i ELSE found_i - start_i
        out == IF len > 0
               THEN Append(output_vector,
                           IF found_i = npos THEN SubstrFrom(input_string, start_i)
                           ELSE Substr(input_string, start_i, found_i - start_i))
               ELSE IF retain_empty THEN Append(output_vector, <<>>)
               ELSE output_vector
    IN  IF found_i = npos THEN out
        ELSE SplitLoop(input_string, delim, retain_empty, found_i + 1, out)

SplitLoop(input_string, delim, retain_empty, start_i, output_vector) ==
    SplitStep(input_string, delim, retain_empty, start_i, output_vector,
              Find(input_string, delim, start_i))

\* Splits string by delim, optionally retaining empty strings
SplitString(input_string, delim, retain_empty) ==
    SplitLoop(input_string, delim, retain_empty, 0, <<>>)

(***************************************************************************)
(* Preprocessing                                                           *)
(***************************************************************************)

kCommentPrefix == <<"#">>

\* Checks whether the given position in the string is the start of a comment
IsCommentStart(input_string, start_index) ==
    Substr(input_string, start_index, Len(kCommentPrefix)) = kCommentPrefix

RECURSIVE RemoveCommentAnywhere(_, _, _)
\* RemoveComment without the tracking of the quotes, so that a comment prefix
\* inside a string starts a comment: a fault the comment property detects
RemoveCommentAnywhere(line, i, in_quotes) ==
    IF i >= Len(line) THEN line
    ELSE IF IsCommentStart(line, i) THEN Substr(line, 0, i)
    ELSE RemoveCommentAnywhere(line, i + 1, in_quotes)

RECURSIVE RemoveComment(_, _, _)
\* the comment-removal loop over one line, from index i
RemoveComment(line, i, in_quotes) ==
    IF i >= Len(line) THEN line
    ELSE IF At(line, i) = "\"" THEN RemoveComment(line, i + 1, ~in_quotes)
    ELSE IF ~in_quotes /\ IsCommentStart(line, i) THEN Substr(line, 0, i)
    ELSE RemoveComment(line, i + 1, in_quotes)

\* the comment removal and the trimming of every line
StripLines(lines) == [k \in 1..Len(lines) |-> Trim(RemoveComment(lines[k], 0, FALSE))]

NonEmpty(line) == line # <<>>

\* Breaks input into lines, removes comments, and trims whitespace
StripWhitespaceAndComments(input_string) ==
    SelectSeq(StripLines(SplitString(input_string, "\n", FALSE)), NonEmpty)

RECURSIVE ScanBrackets(_, _, _, _)
\* the loop over the characters of one line: <<in_vector, in_quotes>> after it
ScanBrackets(input_line, k, in_vector, in_quotes) ==
    IF k > Len(input_line) THEN <<in_vector, in_quotes>>
    ELSE LET ch == input_line[k]
         IN  IF ch = "\"" THEN ScanBrackets(input_line, k + 1, in_vector, ~in_quotes)
             ELSE IF ~in_quotes /\ ~in_vector /\ ch = "["
                  THEN ScanBrackets(input_line, k + 1, TRUE, in_quotes)
             ELSE IF ~in_quotes /\ in_vector /\ ch = "]"
                  THEN ScanBrackets(input_line, k + 1, FALSE, in_quotes)
             ELSE ScanBrackets(input_line, k + 1, in_vector, in_quotes)

RECURSIVE JoinLoop(_, _, _, _, _, _)

\* JoinStep with every line pushed as a line of its own, inside a vector or
\* not: a fault the multi-line property detects
JoinStepNever(stripped_lines, k, st, joined, output_lines) ==
    JoinLoop(stripped_lines, k + 1, st[1], st[2], <<>>, Append(output_lines, joined))

\* the end of one iteration of the loop over the lines: st is <<in_vector,
\* in_quotes>> after the line, joined is output_line with the line added
JoinStep(stripped_lines, k, st, joined, output_lines) ==
    IF ~st[1]
    THEN JoinLoop(stripped_lines, k + 1, st[1], st[2], <<>>, Append(output_lines, joined))
    ELSE JoinLoop(stripped_lines, k + 1, st[1], st[2], joined \o <<" ">>, output_lines)

JoinLoop(stripped_lines, k, in_vector, in_quotes, output_line, output_lines) ==
    IF k > Len(stripped_lines)
    THEN IF output_line # <<>> THEN Append(output_lines, output_line) ELSE output_lines
    ELSE JoinStep(stripped_lines, k,
                  ScanBrackets(stripped_lines[k], 1, in_vector, in_quotes),
                  output_line \o stripped_lines[k], output_lines)

\* Removes newlines inside of vector expressions, e.g. [1, 2,\n3] --> [1, 2, 3]
RemoveNewlinesInVectorExpressions(stripped_lines) ==
    JoinLoop(stripped_lines, 1, FALSE, FALSE, <<>>, <<>>)

(***************************************************************************)
(* Tokenizing                                                              *)
(***************************************************************************)

not_space(ch) == ~is_space(ch)

is_comma(c) == c = ","

\* delimeter_predicate(ch), for the predicates ReadNextToken is called with,
\* each passed by its name
Holds(delimeter_predicate, ch) ==
    IF delimeter_predicate = "is_space" THEN is_space(ch)
    ELSE IF delimeter_predicate = "not_space" THEN not_space(ch)
    ELSE is_comma(ch)

\* Advances the index until it points to a character for which
\* delimeter_predicate holds (or to the end): [token, index]
ReadNextToken(input_string, current_index, delimeter_predicate) ==
    IF current_index >= Len(input_string)
    THEN [token |-> <<>>, index |-> current_index]
    ELSE LET stop == CHOOSE j \in current_index..Len(input_string) :
                         /\ j = Len(input_string) \/ Holds(delimeter_predicate, At(input_string, j))
                         /\ \A k \in current_index..(j - 1) :
                                ~Holds(delimeter_predicate, At(input_string, k))
         IN  [token |-> SubSeq(input_string, current_index + 1, stop), index |-> stop]

\* SkipWhitespace with an `if` for its loop, so that it skips one character
\* at most: a fault the whitespace property detects
SkipOneSpace(input_string, current_index) ==
    IF current_index > Len(input_string) THEN current_index
    ELSE IF is_space(At(input_string, current_index)) THEN current_index + 1
    ELSE current_index

\* Advances current_index to the next non-whitespace character.  With
\* current_index > size() the read of input_string[current_index] is out of
\* bounds; whatever it yields, ReadNextToken's loop does not run and the index
\* is left as it is.
SkipWhitespace(input_string, current_index) ==
    IF current_index > Len(input_string) THEN current_index
    ELSE IF is_space(At(input_string, current_index))
    THEN ReadNextToken(input_string, current_index, "not_space").index
    ELSE current_index

(***************************************************************************)
(* Single value parsing                                                    *)
(* A Parse operator yields [value, error_flag]: the returned value and     *)
(* what *error_flag holds on return.                                       *)
(***************************************************************************)

\* ParseString with the search for a quote in the contents left out: a fault
\* the string-validity property detects
ParseStringLoose(value_string) ==
    IF Len(value_string) < 2 \/ At(value_string, 0) # "\"" \/ Back(value_string) # "\""
    THEN [value |-> <<>>, error_flag |-> TRUE]
    ELSE [value |-> SubSeq(value_string, 2, Len(value_string) - 1), error_flag |-> FALSE]

ParseString(value_string) ==
    IF Len(value_string) < 2 \/ At(value_string, 0) # "\"" \/ Back(value_string) # "\""
    THEN [value |-> <<>>, error_flag |-> TRUE]
    ELSE LET string_contents == SubSeq(value_string, 2, Len(value_string) - 1)
         IN  [value |-> string_contents,
              error_flag |-> Find(string_contents, "\"", 0) # npos]

Digits == <<"0", "1", "2", "3", "4", "5", "6", "7", "8", "9">>

IsDigit(c) == \E d \in 1..10 : Digits[d] = c

DigitVal(c) == (CHOOSE d \in 1..10 : Digits[d] = c) - 1

\* the index of the first character at or after i that is not a digit
DigitRunEnd(s, i) ==
    IF i > Len(s) THEN i
    ELSE CHOOSE j \in i..Len(s) :
             ~IsDigit(At(s, j)) /\ \A k \in i..(j - 1) : IsDigit(At(s, k))

\* the index of the first character at or after i that is not whitespace
SpaceRunEnd(s, i) ==
    CHOOSE j \in i..Len(s) :
        ~is_space(At(s, j)) /\ \A k \in i..(j - 1) : is_space(At(s, k))

\* the largest int
INT_MAX == 2147483647

\* the magnitudes that do not fit a positive int: exactly INT_MAX + 1, and more
EDGE == -2
OVER == -1

RECURSIVE Magnitude(_, _, _, _)
\* the value of the digits s[i .. stop-1], or EDGE, or OVER
Magnitude(s, i, stop, acc) ==
    IF i >= stop THEN acc
    ELSE LET d == DigitVal(At(s, i))
             next == IF acc = OVER \/ acc = EDGE THEN OVER
                     ELSE IF acc <= (INT_MAX - d) \div 10 THEN acc * 10 + d
                     ELSE IF acc = INT_MAX \div 10 /\ d = 8 THEN EDGE
                     ELSE OVER
         IN  Magnitude(s, i + 1, stop, next)

\* the int of sign neg and magnitude mag, if there is one
stoiValue(neg, mag) ==
    IF mag = OVER \/ (mag = EDGE /\ ~neg) THEN [thrown |-> TRUE, result |-> 0]
    ELSE IF mag = EDGE THEN [thrown |-> FALSE, result |-> (0 - INT_MAX) - 1]
    ELSE [thrown |-> FALSE, result |-> IF neg THEN 0 - mag ELSE mag]

\* the digits are str[p1 .. p2-1]
stoiDigits(str, neg, p1, p2) ==
    IF p2 = p1 THEN [thrown |-> TRUE, result |-> 0]
    ELSE stoiValue(neg, Magnitude(str, p1, p2, 0))

\* the index after an optional sign at index p0
SignEnd(str, p0) == IF At(str, p0) \in {"-", "+"} THEN p0 + 1 ELSE p0

\* the whitespace ends at index p0
stoiSign(str, p0) ==
    stoiDigits(str, At(str, p0) = "-", SignEnd(str, p0), DigitRunEnd(str, SignEnd(str, p0)))

\* std::stoi(str): skips leading whitespace, reads an optional sign and the
\* longest run of decimal digits, and ignores what follows.  It throws
\* (thrown |-> TRUE) when there is no digit or the value does not fit an int.
stoi(str) == stoiSign(str, SpaceRunEnd(str, 0))

ParseInt(value_string) ==
    LET r == stoi(value_string)
    IN  IF r.thrown THEN [value |-> 0, error_flag |-> TRUE]
        ELSE [value |-> r.result, error_flag |-> FALSE]

(***************************************************************************)
(* std::stof and std::stod.  A floating value is [kind |-> "finite", neg,  *)
(* mant, exp] for (-1)^neg * mant * 10^exp with mant not a multiple of 10  *)
(* (zero is mant = 0, exp = 0), [kind |-> "inf", neg] or [kind |-> "nan"]. *)
(* The mantissa keeps SigDigits significant decimal digits; a decimal of   *)
(* at most FLT_DIG = 6 significant digits names one float and one double,  *)
(* so on such literals equal values are equal records.  Hexadecimal        *)
(* literals (0x...) are not modelled.                                      *)
(***************************************************************************)

UpperCase == <<"A", "B", "C", "D", "E", "F", "G", "H", "I", "J", "K", "L", "M",
               "N", "O", "P", "Q", "R", "S", "T", "U", "V", "W", "X", "Y", "Z">>

LowerCase == <<"a", "b", "c", "d", "e", "f", "g", "h", "i", "j", "k", "l", "m",
               "n", "o", "p", "q", "r", "s", "t", "u", "v", "w", "x", "y", "z">>

ToLower(c) ==
    IF \E k \in 1..26 : UpperCase[k] = c
    THEN LowerCase[CHOOSE k \in 1..26 : UpperCase[k] = c]
    ELSE c

\* whether word (lower case) stands at index i of s, in any case
HasWordAt(s, i, word) ==
    /\ i + Len(word) <= Len(s)
    /\ \A k \in 1..Len(word) : ToLower(s[i + k]) = word[k]

SigDigits == 8

ExpCap == 9999

RECURSIVE ScanMantissa(_, _, _, _, _, _)
\* the digits s[i .. stop-1] (a "." among them is skipped) as [mant, dropped]:
\* the first SigDigits significant digits and the number of digits after them
ScanMantissa(s, i, stop, mant, nsig, dropped) ==
    IF i >= stop THEN [mant |-> mant, dropped |-> dropped]
    ELSE IF At(s, i) = "." THEN ScanMantissa(s, i + 1, stop, mant, nsig, dropped)
    ELSE LET d == DigitVal(At(s, i))
         IN  IF nsig = 0 /\ d = 0 THEN ScanMantissa(s, i + 1, stop, mant, nsig, dropped)
             ELSE IF nsig < SigDigits
                  THEN ScanMantissa(s, i + 1, stop, mant * 10 + d, nsig + 1, dropped)
             ELSE ScanMantissa(s, i + 1, stop, mant, nsig, dropped + 1)

RECURSIVE ScanExponent(_, _, _, _)
\* the value of the exponent digits s[i .. stop-1], capped at ExpCap
ScanExponent(s, i, stop, acc) ==
    IF i >= stop THEN acc
    ELSE ScanExponent(s, i + 1, stop, Min(acc * 10 + DigitVal(At(s, i)), ExpCap))

RECURSIVE Normalize(_, _)
\* <<mant, exp>> with the trailing zeros of mant moved into exp
Normalize(mant, exp) ==
    IF mant = 0 THEN <<0, 0>>
    ELSE IF mant % 10 = 0 THEN Normalize(mant \div 10, exp + 1)
    ELSE <<mant, exp>>

RECURSIVE NumDigits(_)
NumDigits(n) == IF n < 10 THEN 1 ELSE 1 + NumDigits(n \div 10)

RECURSIVE Pow10(_)
Pow10(n) == IF n = 0 THEN 1 ELSE 10 * Pow10(n - 1)

\* FLT_MAX = 3.4028235e38, FLT_MIN = 1.1754944e-38,
\* DBL_MAX = 1.7976931e308, DBL_MIN = 2.2250739e-308, as <<order, lead>>:
\* lead (8 digits) * 10^(order - 7)
FloatMax == <<38, 34028235>>
FloatMin == <<0 - 38, 11754944>>
DoubleMax == <<308, 17976931>>
DoubleMin == <<0 - 308, 22250739>>

\* whether mant * 10^exp (mant > 0, normalized) is above max or below min:
\* strtof / strtod then set errno to ERANGE
OutOfRange(mant, exp, max, min) ==
    LET nd == NumDigits(mant)
        order == exp + nd - 1
        lead == IF nd <= 8 THEN mant * Pow10(8 - nd) ELSE mant \div Pow10(nd - 8)
    IN  \/ order > max[1]
        \/ order = max[1] /\ lead > max[2]
        \/ order < min[1]
        \/ order = min[1] /\ lead < min[2]

\* the finite value of sign neg and normalized <<mant, exp>> n, if in range
FiniteValue(neg, n, max, min) ==
    IF n[1] # 0 /\ OutOfRange(n[1], n[2], max, min) THEN [thrown |-> TRUE]
    ELSE [thrown |-> FALSE,
          result |-> [kind |-> "finite", neg |-> neg, mant |-> n[1], exp |-> n[2]]]

\* the scanned mantissa m with the exponent exp, normalized
NormalizeScan(m, exp) == Normalize(m.mant, exp + m.dropped)

\* the value of the exponent whose digits are str[e1 .. e2-1], after the "e"
\* at index mantEnd; an "e" that no digit follows is not part of the literal
ExponentDigits(str, mantEnd, e1, e2) ==
    IF e2 = e1 THEN 0
    ELSE IF At(str, mantEnd + 1) = "-" THEN 0 - ScanExponent(str, e1, e2, 0)
    ELSE ScanExponent(str, e1, e2, 0)

\* the exponent that starts at index mantEnd, 0 if there is none
Exponent(str, mantEnd) ==
    IF At(str, mantEnd) \notin {"e", "E"} THEN 0
    ELSE ExponentDigits(str, mantEnd, SignEnd(str, mantEnd + 1),
                        DigitRunEnd(str, SignEnd(str, mantEnd + 1)))

\* the index after the digits and the "." that follow index intEnd
FractionEnd(str, intEnd) ==
    IF At(str, intEnd) = "." THEN DigitRunEnd(str, intEnd + 1) ELSE intEnd

\* the decimal literal str[p1 .. mantEnd-1], whose integer part ends at intEnd
Decimal(str, neg, p1, intEnd, mantEnd, max, min) ==
    LET nFrac == IF mantEnd > intEnd THEN mantEnd - (intEnd + 1) ELSE 0
    IN  IF (intEnd - p1) + nFrac = 0 THEN [thrown |-> TRUE]
        ELSE FiniteValue(neg,
                         NormalizeScan(ScanMantissa(str, p1, mantEnd, 0, 0, 0),
                                       Exponent(str, mantEnd) - nFrac),
                         max, min)

\* the literal that starts at index p1, after the sign
Literal(str, neg, p1, max, min) ==
    IF HasWordAt(str, p1, <<"i", "n", "f">>)
    THEN [thrown |-> FALSE, result |-> [kind |-> "inf", neg |-> neg]]
    ELSE IF HasWordAt(str, p1, <<"n", "a", "n">>)
    THEN [thrown |-> FALSE, result |-> [kind |-> "nan"]]
    ELSE Decimal(str, neg, p1, DigitRunEnd(str, p1),
                 FractionEnd(str, DigitRunEnd(str, p1)), max, min)

\* the whitespace ends at index p0
strtoxSign(str, p0, max, min) == Literal(str, At(str, p0) = "-", SignEnd(str, p0), max, min)

\* strtof / strtod followed by the checks of std::stof / std::stod: skips
\* leading whitespace, reads an optional sign and then the longest prefix
\* that is "inf", "infinity", "nan" or a decimal literal with an optional
\* exponent, and ignores what follows.  It throws when there is no such
\* prefix or the value is out of the range [min, max].
strtox(str, max, min) == strtoxSign(str, SpaceRunEnd(str, 0), max, min)

\* the value 0 of a float or double
Zero == [kind |-> "finite", neg |-> FALSE, mant |-> 0, exp |-> 0]

stof(str) == strtox(str, FloatMax, FloatMin)

stod(str) == strtox(str, DoubleMax, DoubleMin)

ParseFloat(value_string) ==
    LET r == stof(value_string)
    IN  IF r.thrown THEN [value |-> Zero, error_flag |-> TRUE]
        ELSE [value |-> r.result, error_flag |-> FALSE]

ParseDouble(value_string) ==
    LET r == stod(value_string)
    IN  IF r.thrown THEN [value |-> Zero, error_flag |-> TRUE]
        ELSE [value |-> r.result, error_flag |-> FALSE]

ParseBool(value_string) ==
    IF value_string = <<"t", "r", "u", "e">> THEN [value |-> TRUE, error_flag |-> FALSE]
    ELSE IF value_string = <<"f", "a", "l", "s", "e">>
    THEN [value |-> FALSE, error_flag |-> FALSE]
    ELSE [value |-> FALSE, error_flag |-> TRUE]

(***************************************************************************)
(* Vector parsing                                                          *)
(***************************************************************************)

kStringTypeString == <<"s", "t", "r", "i", "n", "g">>
kIntTypeString == <<"i", "n", "t">>
kFloatTypeString == <<"f", "l", "o", "a", "t">>
kDoubleTypeString == <<"d", "o", "u", "b", "l", "e">>
kBoolTypeString == <<"b", "o", "o", "l">>

kValidTypeStrings ==
    <<kStringTypeString, kIntTypeString, kFloatTypeString, kDoubleTypeString,
      kBoolTypeString>>

RECURSIVE SplitQuotedLenient(_, _, _, _, _, _, _)
\* SplitQuoted with whitespace skipped where a comma is expected: a fault the
\* property of the string-vector splitter detects
SplitQuotedLenient(vector_string, i, in_quotes, expect_comma, expect_new_value, current_string, value_strings) ==
    IF ~(i + 1 < Len(vector_string))
    THEN [value_strings |-> value_strings, error_flag |-> FALSE]
    ELSE IF expect_comma /\ At(vector_string, i) = ","
    THEN SplitQuotedLenient(vector_string, i + 1, in_quotes, FALSE, TRUE, <<>>,
                            value_strings)
    ELSE IF expect_comma /\ is_space(At(vector_string, i))
    THEN SplitQuotedLenient(vector_string, i + 1, in_quotes, expect_comma,
                            expect_new_value, <<>>, value_strings)
    ELSE IF expect_comma
    THEN [value_strings |-> value_strings, error_flag |-> TRUE]
    ELSE IF expect_new_value /\ At(vector_string, i) = "\""
    THEN SplitQuotedLenient(vector_string, i + 1, TRUE, expect_comma, FALSE, <<"\"">>,
                            value_strings)
    ELSE IF expect_new_value /\ is_space(At(vector_string, i))
    THEN SplitQuotedLenient(vector_string, i + 1, in_quotes, expect_comma,
                            expect_new_value, <<>>, value_strings)
    ELSE IF expect_new_value
    THEN [value_strings |-> value_strings, error_flag |-> TRUE]
    ELSE IF At(vector_string, i) = "\""
    THEN SplitQuotedLenient(vector_string, i + 1, FALSE, TRUE, expect_new_value, <<>>,
                            Append(value_strings,
                                   Append(current_string, At(vector_string, i))))
    ELSE SplitQuotedLenient(vector_string, i + 1, in_quotes, expect_comma,
                            expect_new_value,
                            Append(current_string, At(vector_string, i)), value_strings)

RECURSIVE SplitQuoted(_, _, _, _, _, _, _)
\* the string branch of SplitVectorExpression: the loop from index i
SplitQuoted(vector_string, i, in_quotes, expect_comma, expect_new_value, current_string, value_strings) ==
    IF ~(i + 1 < Len(vector_string))
    THEN [value_strings |-> value_strings, error_flag |-> FALSE]
    ELSE LET ch == At(vector_string, i)
             cur == Append(current_string, ch)
         IN  IF expect_comma /\ ch = ","
             THEN SplitQuoted(vector_string, i + 1, in_quotes, FALSE, TRUE, cur,
                              value_strings)
             ELSE IF expect_comma
             THEN [value_strings |-> value_strings, error_flag |-> TRUE]
             ELSE IF expect_new_value /\ ch = "\""
             THEN SplitQuoted(vector_string, i + 1, TRUE, expect_comma, FALSE, <<ch>>,
                              value_strings)
             ELSE IF expect_new_value /\ is_space(ch)
             THEN SplitQuoted(vector_string, i + 1, in_quotes, expect_comma,
                              expect_new_value, cur, value_strings)
             ELSE IF expect_new_value /\ ~is_space(ch)
             THEN [value_strings |-> value_strings, error_flag |-> TRUE]
             ELSE IF in_quotes /\ ch = "\""
             THEN SplitQuoted(vector_string, i + 1, FALSE, TRUE, expect_new_value, <<>>,
                              Append(value_strings, cur))
             ELSE IF in_quotes /\ ch # "\""
             THEN SplitQuoted(vector_string, i + 1, in_quotes, expect_comma,
                              expect_new_value, cur, value_strings)
             ELSE [value_strings |-> value_strings, error_flag |-> TRUE]

\* BackIsBracket with the comparison left out, so that the "]" stays on the
\* last element: a fault the vector round-trip property detects
NeverBracket(value_string, ub) == FALSE

\* value_string.back() == ']'.  On an empty value_string back() reads before
\* the string's first character: the comparison yields either value (ub).
BackIsBracket(value_string, ub) ==
    IF value_string = <<>> THEN ub ELSE Back(value_string) = "]"

\* value_string.pop_back().  On an empty value_string (reached when the read
\* above yielded ']') the string is left without a readable character.
PopBack(value_string) ==
    IF value_string = <<>> THEN <<>> ELSE SubSeq(value_string, 1, Len(value_string) - 1)

RECURSIVE SplitPlain(_, _, _, _)

\* one iteration of the loop of the non-string branch, after its
\* ReadNextToken, which read value_string and moved the index to index
SplitToken(vector_string, value_string, index, value_strings, ub) ==
    IF \E k \in 1..Len(value_string) : is_space(value_string[k])
    THEN [value_strings |-> value_strings, error_flag |-> TRUE]
    ELSE SplitPlain(vector_string, SkipWhitespace(vector_string, index + 1),
                    Append(value_strings,
                           IF BackIsBracket(value_string, ub) THEN PopBack(value_string)
                           ELSE value_string),
                    ub)

\* a token and the index after it
TokenOf(t) == t.token
IndexOf(t) == t.index

\* the iteration for the token t read at its start
SplitRead(vector_string, t, value_strings, ub) ==
    SplitToken(vector_string, TokenOf(t), IndexOf(t), value_strings, ub)

\* the non-string branch of SplitVectorExpression: the loop from index
SplitPlain(vector_string, index, value_strings, ub) ==
    IF ~(index + 1 < Len(vector_string))
    THEN [value_strings |-> value_strings, error_flag |-> FALSE]
    ELSE SplitRead(vector_string, ReadNextToken(vector_string, index, "is_comma"),
                   value_strings, ub)

RECURSIVE SplitReads(_, _)

\* the reads of one iteration of the loop of the non-string branch, after its
\* ReadNextToken has returned t: value_string.back() reads value_string at
\* size() - 1, and SkipWhitespace reads vector_string at the index after the
\* comma; each read is [in, index, size], size being that of the string read
SplitReadsAfter(vector_string, t) ==
    IF \E k \in 1..Len(TokenOf(t)) : is_space(TokenOf(t)[k]) THEN <<>>
    ELSE <<[in |-> "back", index |-> Len(TokenOf(t)) - 1, size |-> Len(TokenOf(t))],
           [in |-> "SkipWhitespace", index |-> IndexOf(t) + 1, size |-> Len(vector_string)]>>
             \o SplitReads(vector_string, SkipWhitespace(vector_string, IndexOf(t) + 1))

\* the reads of the loop of the non-string branch of SplitVectorExpression
\* from index on, other than those of ReadNextToken, in the order they are made
SplitReads(vector_string, index) ==
    IF ~(index + 1 < Len(vector_string)) THEN <<>>
    ELSE SplitReadsAfter(vector_string, ReadNextToken(vector_string, index, "is_comma"))

\* Breaks a single string containing a vector expression into its component
\* pieces, e.g. "[1, 2, 3]" --> <<"1", "2", "3">>
SplitVectorExpression(vector_string, type_string, ub) ==
    IF type_string = kStringTypeString
    THEN SplitQuoted(vector_string, 1, FALSE, FALSE, TRUE, <<>>, <<>>)
    ELSE SplitPlain(vector_string, 1, <<>>, ub)

\* ParseValues with the elements that fail their parse left out and the error
\* flag not set: a fault the fail-fast property detects
ParseValuesSkipping(parsed) ==
    [value |-> [k \in 1..Len(SelectSeq(parsed, LAMBDA r : ~r.error_flag)) |->
                    SelectSeq(parsed, LAMBDA r : ~r.error_flag)[k].value],
     error_flag |-> FALSE]

\* the loop over the value strings: the parsed values up to and with the first
\* one whose parse sets the error flag
ParseValues(parsed) ==
    IF \A k \in 1..Len(parsed) : ~parsed[k].error_flag
    THEN [value |-> [k \in 1..Len(parsed) |-> parsed[k].value], error_flag |-> FALSE]
    ELSE [value |-> [k \in 1..(CHOOSE n \in 1..Len(parsed) :
                                   /\ parsed[n].error_flag
                                   /\ \A j \in 1..(n - 1) : ~parsed[j].error_flag)
                       |-> parsed[k].value],
          error_flag |-> TRUE]

\* the single value parser of a type
ParseValue(value_string, type_string) ==
    IF type_string = kStringTypeString THEN ParseString(value_string)
    ELSE IF type_string = kIntTypeString THEN ParseInt(value_string)
    ELSE IF type_string = kFloatTypeString THEN ParseFloat(value_string)
    ELSE IF type_string = kDoubleTypeString THEN ParseDouble(value_string)
    ELSE ParseBool(value_string)

\* the part of ParseXxxVector after the split
ParseSplit(split, type_string) ==
    IF split.error_flag THEN [value |-> <<>>, error_flag |-> TRUE]
    ELSE ParseValues([k \in 1..Len(split.value_strings) |->
                         ParseValue(split.value_strings[k], type_string)])

\* the body shared by the five ParseXxxVector functions, which differ in the
\* type string they split with and in the parser of one value.  The loop
\* pushes each parsed value and breaks after the first one whose parse sets
\* the error flag.
ParseVector(expression_string, type_string, ub) ==
    ParseSplit(SplitVectorExpression(expression_string, type_string, ub), type_string)

ParseStringVector(expression_string, ub) ==
    ParseVector(expression_string, kStringTypeString, ub)

ParseIntVector(expression_string, ub) ==
    ParseVector(expression_string, kIntTypeString, ub)

ParseFloatVector(expression_string, ub) ==
    ParseVector(expression_string, kFloatTypeString, ub)

ParseDoubleVector(expression_string, ub) ==
    ParseVector(expression_string, kDoubleTypeString, ub)

ParseBoolVector(expression_string, ub) ==
    ParseVector(expression_string, kBoolTypeString, ub)

\* the vector parser of a type
ParseVectorOf(expression_string, type_string, ub) ==
    IF type_string = kStringTypeString THEN ParseStringVector(expression_string, ub)
    ELSE IF type_string = kIntTypeString THEN ParseIntVector(expression_string, ub)
    ELSE IF type_string = kFloatTypeString THEN ParseFloatVector(expression_string, ub)
    ELSE IF type_string = kDoubleTypeString THEN ParseDoubleVector(expression_string, ub)
    ELSE ParseBoolVector(expression_string, ub)

\* true if the value can be parsed as the type (a valid type string)
CheckParseValue(value_string, type_string) ==
    ~ CASE type_string = kStringTypeString -> ParseString(value_string).error_flag
        [] type_string = kIntTypeString -> ParseInt(value_string).error_flag
        [] type_string = kFloatTypeString -> ParseFloat(value_string).error_flag
        [] type_string = kDoubleTypeString -> ParseDouble(value_string).error_flag
        [] type_string = kBoolTypeString -> ParseBool(value_string).error_flag

CheckParseVector(vector_string, type_string, ub) ==
    ~ CASE type_string = kStringTypeString -> ParseStringVector(vector_string, ub).error_flag
        [] type_string = kIntTypeString -> ParseIntVector(vector_string, ub).error_flag
        [] type_string = kFloatTypeString -> ParseFloatVector(vector_string, ub).error_flag
        [] type_string = kDoubleTypeString -> ParseDoubleVector(vector_string, ub).error_flag
        [] type_string = kBoolTypeString -> ParseBoolVector(vector_string, ub).error_flag

\* CheckParseExpression with every expression taken as valid: a fault the
\* invariant of the store detects
CheckParseAlways(expression_string, type_string, is_vector, ub) == TRUE

CheckParseExpression(expression_string, type_string, is_vector, ub) ==
    IF is_vector THEN CheckParseVector(expression_string, type_string, ub)
    ELSE CheckParseValue(expression_string, type_string)

(***************************************************************************)
(* The constructor                                                         *)
(* An error message is a record of the parts the code concatenates.        *)
(***************************************************************************)

TypeStringIsValid(type_string) ==
    \E k \in 1..Len(kValidTypeStrings) : kValidTypeStrings[k] = type_string

\* the message AddErrorMessage(error_message) pushes, at line line_number
AddErrorMessage(line_number, what, arg) ==
    [prefix |-> "Parsing error in file", line |-> line_number, what |-> what, arg |-> arg]

\* the message pushed when the file cannot be opened
OpenErrorMessage == [prefix |-> "Error opening file"]

\* ReadEquals with the SkipWhitespace after the "=" left out: a fault the
\* scalar round-trip property detects
ReadEqualsNoSkip(line, type_token, name_string, t3) ==
    [type_token |-> type_token, name_string |-> name_string,
     equals_string |-> t3.token, index |-> t3.index]

\* the reads of the "=" (t3), the name and the type: the tokens, and the index
\* after the whitespace that follows the "="
ReadEquals(line, type_token, name_string, t3) ==
    [type_token |-> type_token, name_string |-> name_string,
     equals_string |-> t3.token, index |-> SkipWhitespace(line, t3.index)]

ReadName(line, type_token, t2) ==
    ReadEquals(line, type_token, t2.token,
               ReadNextToken(line, SkipWhitespace(line, t2.index), "is_space"))

ReadType(line, t1) ==
    ReadName(line, t1.token, ReadNextToken(line, SkipWhitespace(line, t1.index), "is_space"))

\* the first three tokens of a line, read as the constructor reads them
ReadTokens(line) == ReadType(line, ReadNextToken(line, SkipWhitespace(line, 0), "is_space"))

\* the checks of one iteration of the constructor's loop, in the code's order,
\* on the tokens tok of line: [failed, message] when it returns early,
\* [failed, name, variable] when it reaches the insertion
CheckDeclaration(line, var_map, line_number, ub, tok) ==
    LET is_vector ==
            /\ Len(tok.type_token) >= 2
            /\ SubstrFrom(tok.type_token, Len(tok.type_token) - 2) = <<"[", "]">>
        type_string ==
            IF is_vector THEN Substr(tok.type_token, 0, Len(tok.type_token) - 2)
            ELSE tok.type_token
        whole == is_vector \/ type_string = kStringTypeString
        expression_string ==
            IF whole THEN SubstrFrom(line, tok.index)
            ELSE ReadNextToken(line, tok.index, "is_space").token
        current_index ==
            IF whole THEN Len(line) ELSE ReadNextToken(line, tok.index, "is_space").index
        Fail(what, arg) ==
            [failed |-> TRUE, message |-> AddErrorMessage(line_number, what, arg)]
    IN  IF ~TypeStringIsValid(type_string) THEN Fail("invalid type", type_string)
        ELSE IF tok.name_string \in DOMAIN var_map
        THEN Fail("redefinition of entity", tok.name_string)
        ELSE IF tok.equals_string # <<"=">>
        THEN Fail("expected =, encountered", tok.equals_string)
        ELSE IF is_vector /\ (At(line, tok.index) # "[" \/ Back(line) # "]")
        THEN Fail("vector must be enclosed in []", <<>>)
        ELSE IF ~is_vector /\ type_string = kStringTypeString
                /\ (At(line, tok.index) # "\"" \/ Back(line) # "\"")
        THEN Fail("string value must be enclosed in quotes", <<>>)
        ELSE IF ~CheckParseExpression(expression_string, type_string, is_vector, ub)
        THEN Fail("could not parse as type",
                  expression_string \o <<" as type ">> \o type_string
                      \o (IF is_vector THEN <<"[", "]">> ELSE <<>>))
        ELSE IF current_index < Len(line)
        THEN Fail("expected end of line at", SubstrFrom(line, current_index))
        ELSE [failed |-> FALSE, name |-> tok.name_string,
              variable |-> [type_string |-> type_string, is_vector |-> is_vector,
                            expression_string |-> expression_string]]

\* ParseDeclaration with the test of the name moved before the test of the
\* type: a fault the property of the order of the checks detects
ParseDeclarationNameFirst(line, var_map, line_number, ub) ==
    IF ReadTokens(line).name_string \in DOMAIN var_map
    THEN [failed |-> TRUE,
          message |-> AddErrorMessage(line_number, "redefinition of entity",
                                      ReadTokens(line).name_string)]
    ELSE CheckDeclaration(line, var_map, line_number, ub, ReadTokens(line))

\* one iteration of the constructor's loop, on line, with _var_map = var_map
\* and _line_number = line_number (already incremented)
ParseDeclaration(line, var_map, line_number, ub) ==
    CheckDeclaration(line, var_map, line_number, ub, ReadTokens(line))

\* _var_map[name] = variable
Insert(var_map, name, variable) ==
    [n \in DOMAIN var_map \cup {name} |-> IF n = name THEN variable ELSE var_map[n]]

\* Open with the push of the error message left out when the file cannot be
\* opened: a fault the unopenable-file property detects
OpenSilent ==
    /\ pc = "new"
    /\ IF ~file.openable
       THEN /\ input_lines' = <<>>
            /\ pc' = "done"
       ELSE /\ input_lines' = RemoveNewlinesInVectorExpressions(
                                   StripWhitespaceAndComments(file.text))
            /\ pc' = IF input_lines' = <<>> THEN "done" ELSE "parsing"
    /\ UNCHANGED <<file, _line_number, _var_map, _error_messages, calls, last>>

\* the constructor up to its loop: the file is opened, read and preprocessed
Open ==
    /\ pc = "new"
    /\ IF ~file.openable
       THEN /\ _error_messages' = Append(_error_messages, OpenErrorMessage)
            /\ input_lines' = <<>>
            /\ pc' = "done"
       ELSE /\ input_lines' = RemoveNewlinesInVectorExpressions(
                                   StripWhitespaceAndComments(file.text))
            /\ pc' = IF input_lines' = <<>> THEN "done" ELSE "parsing"
            /\ UNCHANGED _error_messages
    /\ UNCHANGED <<file, _line_number, _var_map, calls, last>>

\* ParseLine with the return after an error left out: a fault the
\* halt-on-first-error property detects
ParseLineNoHalt ==
    /\ pc = "parsing"
    /\ _line_number' = _line_number + 1
    /\ \E ub \in BOOLEAN :
       \E d \in {ParseDeclaration(input_lines[_line_number'], _var_map, _line_number', ub)} :
         IF d.failed
         THEN /\ _error_messages' = Append(_error_messages, d.message)
              /\ UNCHANGED _var_map
         ELSE /\ _var_map' = Insert(_var_map, d.name, d.variable)
              /\ UNCHANGED _error_messages
    /\ pc' = IF _line_number' = Len(input_lines) THEN "done" ELSE "parsing"
    /\ UNCHANGED <<file, input_lines, calls, last>>

\* ParseLine with the lookup of the name in _var_map left out: a fault the
\* redefinition property detects
ParseLineOverwrite ==
    /\ pc = "parsing"
    /\ _line_number' = _line_number + 1
    /\ \E ub \in BOOLEAN :
       \E d \in {ParseDeclaration(input_lines[_line_number'], <<>>, _line_number', ub)} :
         IF d.failed
         THEN /\ _error_messages' = Append(_error_messages, d.message)
              /\ pc' = "done"
              /\ UNCHANGED _var_map
         ELSE /\ _var_map' = Insert(_var_map, d.name, d.variable)
              /\ pc' = IF _line_number' = Len(input_lines) THEN "done" ELSE "parsing"
              /\ UNCHANGED _error_messages
    /\ UNCHANGED <<file, input_lines, calls, last>>

\* one iteration of the constructor's loop; the constructor returns after an
\* error and after the last line
ParseLine ==
    /\ pc = "parsing"
    /\ _line_number' = _line_number + 1
    /\ \E ub \in BOOLEAN :
       \E d \in {ParseDeclaration(input_lines[_line_number'], _var_map, _line_number', ub)} :
         IF d.failed
         THEN /\ _error_messages' = Append(_error_messages, d.message)
              /\ pc' = "done"
              /\ UNCHANGED _var_map
         ELSE /\ _var_map' = Insert(_var_map, d.name, d.variable)
              /\ pc' = IF _line_number' = Len(input_lines) THEN "done" ELSE "parsing"
              /\ UNCHANGED _error_messages
    /\ UNCHANGED <<file, input_lines, calls, last>>

(***************************************************************************)
(* The getters                                                             *)
(***************************************************************************)

\* the number of getter calls a behaviour makes
MaxCalls == 1

\* the names the getters are called with
QueryNames == {<<"x">>, <<"y">>}

\* CheckVariableExists with the comparisons of the type and of the arity left
\* out: a fault the getter-mismatch property detects
CheckNameOnly(var_map, variable_name, expected_type_string, expected_is_vector) ==
    variable_name \in DOMAIN var_map

\* Checks if a variable of the given type exists
CheckVariableExists(var_map, variable_name, expected_type_string, expected_is_vector) ==
    /\ variable_name \in DOMAIN var_map
    /\ var_map[variable_name].type_string = expected_type_string
    /\ var_map[variable_name].is_vector = expected_is_vector

\* the message CheckVariableExists pushes when the variable is not found
NotFoundMessage(variable_name, expected_type_string, expected_is_vector) ==
    [prefix |-> "Error: didn't find variable", name |-> variable_name,
     type |-> expected_type_string \o (IF expected_is_vector THEN <<"[", "]">> ELSE <<>>)]

\* ErrorCount(): the size of the error log
ErrorCount(error_messages) == Len(error_messages)

\* the "\n" appended after each message, as an item of the error string
Newline == [prefix |-> "\n"]

\* the error string before its last character is removed: each message
\* followed by "\n", a message being one item
RECURSIVE ErrorLines(_)
ErrorLines(error_messages) ==
    IF error_messages = <<>> THEN <<>>
    ELSE <<Head(error_messages), Newline>> \o ErrorLines(Tail(error_messages))

\* ErrorString with the messages before the last one left out: a fault the
\* error log property detects
ErrorStringLast(error_messages) ==
    IF error_messages = <<>> THEN <<>> ELSE <<error_messages[Len(error_messages)]>>

\* ErrorString(): substr(0, size() - 1) of the concatenation removes the last
\* "\n"; on an empty log size() - 1 wraps to the largest size_t and substr
\* returns the empty string
ErrorString(error_messages) ==
    IF ErrorLines(error_messages) = <<>> THEN <<>>
    ELSE SubSeq(ErrorLines(error_messages), 1, Len(ErrorLines(error_messages)) - 1)

\* Getter with the lookup done as _var_map[variable_name], which inserts an
\* empty variable under a name that is absent: a fault the read-only property
\* of the store detects
GetterInserting(op, variable_name, expected_type_string, expected_is_vector, zero) ==
    /\ calls < MaxCalls
    /\ _error_messages' =
           IF CheckVariableExists(_var_map, variable_name, expected_type_string,
                                  expected_is_vector)
           THEN _error_messages
           ELSE Append(_error_messages,
                       NotFoundMessage(variable_name, expected_type_string,
                                       expected_is_vector))
    /\ last' = [op |-> op, name |-> variable_name,
                ret |-> IF CheckVariableExists(_var_map, variable_name,
                                               expected_type_string, expected_is_vector)
                        THEN IF expected_is_vector
                             THEN ParseVectorOf(_var_map[variable_name].expression_string,
                                                expected_type_string, FALSE).value
                             ELSE ParseValue(_var_map[variable_name].expression_string,
                                             expected_type_string).value
                        ELSE zero]
    /\ _var_map' = IF variable_name \in DOMAIN _var_map THEN _var_map
                   ELSE Insert(_var_map, variable_name,
                               [type_string |-> <<>>, is_vector |-> FALSE,
                                expression_string |-> <<>>])
    /\ calls' = calls + 1
    /\ UNCHANGED <<file, pc, input_lines, _line_number>>

\* the body shared by the ten getters, called with variable_name: each runs
\* the parser of its type and arity on the stored expression; zero is the
\* value of its `return {}`
Getter(op, variable_name, expected_type_string, expected_is_vector, zero) ==
    /\ calls < MaxCalls
    /\ \E ub \in (IF expected_is_vector THEN BOOLEAN ELSE {FALSE}) :
         LET variable_exists ==
                 CheckVariableExists(_var_map, variable_name, expected_type_string,
                                     expected_is_vector)
         IN  /\ _error_messages' =
                    IF variable_exists THEN _error_messages
                    ELSE Append(_error_messages,
                                NotFoundMessage(variable_name, expected_type_string,
                                                expected_is_vector))
             /\ last' = [op |-> op, name |-> variable_name,
                         ret |-> IF variable_exists
                                 THEN IF expected_is_vector
                                      THEN ParseVectorOf(
                                               _var_map[variable_name].expression_string,
                                               expected_type_string, ub).value
                                      ELSE ParseValue(
                                               _var_map[variable_name].expression_string,
                                               expected_type_string).value
                                 ELSE zero]
    /\ calls' = calls + 1
    /\ UNCHANGED <<file, pc, input_lines, _line_number, _var_map>>

GetStringValue ==
    /\ pc = "done"
    /\ \E variable_name \in QueryNames :
         Getter("GetStringValue", variable_name, kStringTypeString, FALSE, <<>>)

GetIntValue ==
    /\ pc = "done"
    /\ \E variable_name \in QueryNames :
         Getter("GetIntValue", variable_name, kIntTypeString, FALSE, 0)

GetFloatValue ==
    /\ pc = "done"
    /\ \E variable_name \in QueryNames :
         Getter("GetFloatValue", variable_name, kFloatTypeString, FALSE, Zero)

GetDoubleValue ==
    /\ pc = "done"
    /\ \E variable_name \in QueryNames :
         Getter("GetDoubleValue", variable_name, kDoubleTypeString, FALSE, Zero)

GetBoolValue ==
    /\ pc = "done"
    /\ \E variable_name \in QueryNames :
         Getter("GetBoolValue", variable_name, kBoolTypeString, FALSE, FALSE)

GetStringVector ==
    /\ pc = "done"
    /\ \E variable_name \in QueryNames :
         Getter("GetStringVector", variable_name, kStringTypeString, TRUE, <<>>)

GetIntVector ==
    /\ pc = "done"
    /\ \E variable_name \in QueryNames :
         Getter("GetIntVector", variable_name, kIntTypeString, TRUE, <<>>)

GetFloatVector ==
    /\ pc = "done"
    /\ \E variable_name \in QueryNames :
         Getter("GetFloatVector", variable_name, kFloatTypeString, TRUE, <<>>)

GetDoubleVector ==
    /\ pc = "done"
    /\ \E variable_name \in QueryNames :
         Getter("GetDoubleVector", variable_name, kDoubleTypeString, TRUE, <<>>)

GetBoolVector ==
    /\ pc = "done"
    /\ \E variable_name \in QueryNames :
         Getter("GetBoolVector", variable_name, kBoolTypeString, TRUE, <<>>)

Next ==
    \/ Open
    \/ ParseLine
    \/ GetStringValue
    \/ GetIntValue
    \/ GetFloatValue
    \/ GetDoubleValue
    \/ GetBoolValue
    \/ GetStringVector
    \/ GetIntVector
    \/ GetFloatVector
    \/ GetDoubleVector
    \/ GetBoolVector

(***************************************************************************)
(* Files                                                                   *)
(***************************************************************************)

\* `type name = value`
Decl(type, name, value) == type \o <<" ">> \o name \o <<" ", "=", " ">> \o value

\* `type[] name = value`
VecDecl(type, name, value) == Decl(type \o <<"[", "]">>, name, value)

RECURSIVE Text(_)
\* the text of a file with the given physical lines
Text(lines) ==
    IF lines = <<>> THEN <<>> ELSE Head(lines) \o <<"\n">> \o Text(Tail(lines))

\* the state of a ConfigParser object before its constructor has run, for a
\* path that holds one of the texts or cannot be opened
InitWith(texts) ==
    /\ file \in {[openable |-> TRUE, text |-> t] : t \in texts}
                \cup {[openable |-> FALSE, text |-> <<>>]}
    /\ pc = "new"
    /\ input_lines = <<>>
    /\ _line_number = 0
    /\ _var_map = <<>>
    /\ _error_messages = <<>>
    /\ calls = 0
    /\ last = [op |-> "none"]

\* the most declarations of a file
MaxLines == 3

\* the declarations the files are made of: two of x, one of y, and a bad one
LinePool ==
    { Decl(kIntTypeString, <<"x">>, <<"5">>),
      VecDecl(kStringTypeString, <<"x">>, <<"[", "\"", "a", "\"", ",", " ", "\"", "b", "\"", "]">>),
      Decl(kBoolTypeString, <<"y">>, <<"t", "r", "u", "e">>),
      Decl(kDoubleTypeString, <<"z">>, <<"a", "b", "c">>) }

\* the sequences of at most MaxLines lines
LineSeqs == UNION {[1..n -> LinePool] : n \in 0..MaxLines}

Init == InitWith({Text(ls) : ls \in LineSeqs})

Spec == Init /\ [][Next]_vars

(***************************************************************************)
(* Files of one declaration: a type, the name x and a value written as the *)
(* declaration's right-hand side                                           *)
(***************************************************************************)

\* the five element types
Types == {kValidTypeStrings[k] : k \in 1..Len(kValidTypeStrings)}

\* base-10 signed integer literals in the range of int
IntLiterals ==
    { <<"5">>,
      <<"-", "7">>,
      <<"0", "0", "7">>,
      <<"+", "3">>,
      <<"2", "1", "4", "7", "4", "8", "3", "6", "4", "7">>,
      <<"-", "2", "1", "4", "7", "4", "8", "3", "6", "4", "8">> }

\* decimal and scientific literals in the range of float and of double
DecimalLiterals ==
    { <<"1", ".", "5">>,
      <<"1", ".", "5", "0">>,
      <<"-", "2", ".", "2", "5">>,
      <<"1", "e", "3">>,
      <<".", "5">>,
      <<"5", ".">>,
      <<"1", "E", "-", "2">>,
      <<"i", "n", "f">> }

\* an integer literal outside the range of int, in the range of float
LongLiterals ==
    { <<"2", "1", "4", "7", "4", "8", "3", "6", "4", "8">> }

\* literals in the range of double and outside the range of float
WideLiterals ==
    { <<"1", "e", "3", "9">>,
      <<"1", "e", "-", "5", "0">> }

\* the two bool literals
BoolLiterals ==
    { <<"t", "r", "u", "e">>,
      <<"f", "a", "l", "s", "e">> }

\* quoted strings without an inner quote
StringLiterals ==
    { <<"\"", "h", "i", "\"">>,
      <<"\"", "a", " ", " ", "b", "\"">>,
      <<"\"", "\"">>,
      <<"\"", "a", "#", "b", "\"">>,
      <<"\"", "[", "1", "\"">>,
      <<"\"", " ", "\"">> }

\* values that are a literal of no type
OtherValues ==
    { <<"4", "2", "a", "b", "c">>,
      <<"1", ".", "5", "x">>,
      <<"a", "b", "c">>,
      <<"h", "e", "l", "l", "o">>,
      <<"\"", "a", "\"", "b", "\"">>,
      <<"\"">>,
      <<"\"", "a", "b", "c">>,
      <<"a", "b", "c", "\"">>,
      <<"1", "e", "4", "0", "0">>,
      <<"T", "r", "u", "e">>,
      <<"x", "5">>,
      <<"1", "e">>,
      <<"-">> }

\* the values that are a valid literal of the type
Literals(type) ==
    IF type = kStringTypeString THEN StringLiterals
    ELSE IF type = kIntTypeString THEN IntLiterals
    ELSE IF type = kFloatTypeString THEN DecimalLiterals \cup IntLiterals \cup LongLiterals
    ELSE IF type = kDoubleTypeString
    THEN DecimalLiterals \cup IntLiterals \cup LongLiterals \cup WideLiterals
    ELSE BoolLiterals

\* the right-hand sides of the scalar declarations
ScalarValues ==
    IntLiterals \cup LongLiterals \cup DecimalLiterals \cup WideLiterals \cup BoolLiterals
        \cup StringLiterals \cup OtherValues

\* the most elements of a vector literal
MaxElems == 2

\* two elements that are literals of the type
ElemLiterals(type) ==
    IF type = kStringTypeString THEN {<<"\"", "a", "\"">>, <<"\"", "b", ",", " ", "c", "\"">>}
    ELSE IF type = kIntTypeString THEN {<<"1">>, <<"-", "2", "0">>}
    ELSE IF type = kBoolTypeString THEN {<<"t", "r", "u", "e">>, <<"f", "a", "l", "s", "e">>}
    ELSE {<<"1", ".", "5">>, <<"-", "2", "e", "3">>}

\* an element that is a literal followed by garbage
ElemGarbage(type) ==
    IF type = kStringTypeString THEN <<"\"", "a", "\"", "b">>
    ELSE IF type = kIntTypeString THEN <<"2", "x">>
    ELSE IF type = kBoolTypeString THEN <<"t", "r", "u", "e", "x">>
    ELSE <<"1", ".", "5", "x">>

\* the elements of the vector declarations of the type
Elems(type) == ElemLiterals(type) \cup {ElemGarbage(type)}

\* the sequences of at most MaxElems elements of pool
ElemSeqs(pool) == UNION {[1..n -> pool] : n \in 0..MaxElems}

RECURSIVE JoinElems(_)
\* v0, v1, ..., vn
JoinElems(values) ==
    IF values = <<>> THEN <<>>
    ELSE IF Len(values) = 1 THEN values[1]
    ELSE values[1] \o <<",", " ">> \o JoinElems(Tail(values))

\* [v0, v1, ..., vn] and, with a trailing comma, [v0, v1, ..., vn,]
VectorLiteral(values, trailing_comma) ==
    <<"[">> \o JoinElems(values) \o (IF trailing_comma THEN <<",">> ELSE <<>>) \o <<"]">>

\* the one-line file of a scalar declaration of x
ScalarFile(type, value) == Text(<<Decl(type, <<"x">>, value)>>)

\* the one-line file of a vector declaration of x
VectorFile(type, values, trailing_comma) ==
    Text(<<VecDecl(type, <<"x">>, VectorLiteral(values, trailing_comma))>>)

\* the vector declarations of the type: every sequence of elements, and with
\* a trailing comma every sequence that has an element
VectorFiles(type) ==
    {VectorFile(type, values, FALSE) : values \in ElemSeqs(Elems(type))}
        \cup {VectorFile(type, values, TRUE) : values \in ElemSeqs(Elems(type)) \ {<<>>}}

InitValue ==
    InitWith({ScalarFile(type, value) : type \in Types, value \in ScalarValues}
             \cup UNION {VectorFiles(type) : type \in Types})

SpecValue == InitValue /\ [][Next]_vars

(***************************************************************************)
(* Files of one declaration written with runs of whitespace between and    *)
(* around its tokens                                                       *)
(***************************************************************************)

\* the longest run of whitespace between two tokens
MaxGap == 2

\* a run of n spaces, or of n tabs
Gap(n, tab) == [k \in 1..n |-> IF tab THEN "\t" ELSE " "]

\* type, name, = and value with g1, g2 and g3 whitespace characters between
\* them and lead before the type
Spaced(type, name, value, lead, g1, g2, g3, tab) ==
    Gap(lead, tab) \o type \o Gap(g1, tab) \o name \o Gap(g2, tab) \o <<"=">>
        \o Gap(g3, tab) \o value

\* the declarations written with the gaps: an int, a string with whitespace
\* in its value, and a vector
SpacedDecls ==
    { <<kIntTypeString, <<"5">>>>,
      <<kStringTypeString, <<"\"", "a", " ", " ", "b", "\"">>>>,
      <<kIntTypeString \o <<"[", "]">>, <<"[", "1", ",", " ", "2", "]">>>> }

InitSpace ==
    InitWith({Text(<<Spaced(d[1], <<"x">>, d[2], lead, g1, g2, g3, tab)>>) :
                 d \in SpacedDecls, lead \in 0..1, g1 \in 1..MaxGap,
                 g2 \in 0..MaxGap, g3 \in 0..MaxGap, tab \in BOOLEAN})

SpecSpace == InitSpace /\ [][Next]_vars

(***************************************************************************)
(* Files with comments, blank lines and vectors written over several lines *)
(***************************************************************************)

\* the declarations a comment is written after
CommentBases ==
    { Decl(kIntTypeString, <<"x">>, <<"5">>),
      Decl(kStringTypeString, <<"x">>, <<"\"", "a", "#", "b", "\"">>),
      VecDecl(kIntTypeString, <<"x">>, <<"[", "1", ",", " ", "2", "]">>),
      VecDecl(kStringTypeString, <<"x">>, <<"[", "\"", "#", "\"", ",", " ", "\"", "b", "\"", "]">>) }

\* no comment, and comments with quotes, brackets and further comment prefixes
Comments ==
    { <<>>,
      <<"#">>,
      <<"#", " ", "c">>,
      <<"#", "\"", "q", "\"", " ", "[", "b", "]", " ", "#", " ", "c">>,
      <<"#", " ", "]", "\"">> }

\* the file of the declaration base with the comment after it, separated by
\* gap, and with a comment line and a blank line above it or not
CommentFile(base, gap, comment, above) ==
    Text((IF above THEN <<<<"#", " ", "[", "a", "b", "o", "v", "e">>, <<>>>> ELSE <<>>) \o <<base \o gap \o comment>>)

CommentFiles ==
    {CommentFile(base, gap, comment, above) :
        base \in CommentBases, gap \in {<<>>, <<" ">>}, comment \in Comments,
        above \in BOOLEAN}

\* what is written after a comma of a vector: a space, or a line break with
\* or without a comment, a blank line and indentation
Breaks ==
    { <<" ">>,
      <<"\n">>,
      <<" ", "#", " ", "c", "\n">>,
      <<"\n", "\n", " ", " ">>,
      <<"#", "[", "\n", "\t">> }

\* the three elements of the vectors written over several lines
ElemTriples(type) ==
    {values \in [1..3 -> ElemLiterals(type)] : values[1] # values[2] /\ values[3] = values[1]}

\* the file of `type[] x = [v1,` sep1 `v2,` sep2 `v3]`
BrokenVector(type, values, sep1, sep2) ==
    type \o <<"[", "]", " ", "x", " ", "=", " ", "[">> \o values[1] \o <<",">> \o sep1 \o values[2] \o <<",">>
        \o sep2 \o values[3] \o <<"]", "\n">>

BrokenVectors ==
    UNION {{BrokenVector(type, values, sep1, sep2) :
               values \in ElemTriples(type), sep1 \in Breaks, sep2 \in Breaks} :
           type \in Types}

\* a string with an opening bracket, followed by a declaration of y
BracketInString ==
    Text(<<Decl(kStringTypeString, <<"x">>, <<"\"", "a", "[", "b", "\"">>),
           Decl(kIntTypeString, <<"y">>, <<"5">>)>>)

\* a vector of strings with brackets, written over two lines
BracketsInElements ==
    Text(<<VecDecl(kStringTypeString, <<"x">>, <<"[", "\"", "a", "]", "\"", ",">>), <<"\"", "[", "b", "\"", "]">>>>)

InitLayout == InitWith(CommentFiles \cup BrokenVectors \cup {BracketInString, BracketsInElements})

SpecLayout == InitLayout /\ [][Next]_vars

(***************************************************************************)
(* Files whose second declaration has several defects                      *)
(***************************************************************************)

\* the type tokens of the second declaration; foo is no type
DefectTypes ==
    {kIntTypeString, kStringTypeString, kIntTypeString \o <<"[", "]">>,
     <<"f", "o", "o">>, <<"f", "o", "o", "[", "]">>}

\* the values written for a type token, each with the check it fails: 4 for
\* its delimiters, 5 for its parse, 0 for none
DefectValues(type_token) ==
    IF type_token = kStringTypeString
    THEN {[text |-> <<"\"", "a", "\"">>, defect |-> 0],
          [text |-> <<"a", "\"">>, defect |-> 4],
          [text |-> <<"\"", "a", "\"", "b", "\"">>, defect |-> 5]}
    ELSE IF type_token = kIntTypeString \o <<"[", "]">>
    THEN {[text |-> <<"[", "1", "]">>, defect |-> 0],
          [text |-> <<"1", "]">>, defect |-> 4],
          [text |-> <<"[", "a", "]">>, defect |-> 5]}
    ELSE {[text |-> <<"5">>, defect |-> 0],
          [text |-> <<"a", "b", "c">>, defect |-> 5]}

\* the second declarations: x is the name the first declaration has taken
DefectDecls ==
    UNION {[type_token : {type_token}, name : {<<"x">>, <<"y">>}, equals : {<<"=">>, <<":">>},
            value : DefectValues(type_token)] : type_token \in DefectTypes}

DefectLine(d) == d.type_token \o <<" ">> \o d.name \o <<" ">> \o d.equals \o <<" ">> \o d.value.text

DefectFile(d) == Text(<<Decl(kIntTypeString, <<"x">>, <<"1">>), DefectLine(d)>>)

InitDefects == InitWith({DefectFile(d) : d \in DefectDecls})

SpecDefects == InitDefects /\ [][Next]_vars

(***************************************************************************)
(* Files that declare one vector of strings                                *)
(***************************************************************************)

\* the longest text between the brackets that is enumerated in full
MaxBody == 4

BodyChars == {"\"", "a", ",", " "}

\* texts between the brackets with two elements
LongBodies ==
    { <<"\"", "a", "\"", ",", "\"", "a", "\"">>,
      <<"\"", "a", "\"", ",", " ", "\"", "a", "\"">>,
      <<"\"", "a", "\"", " ", "\"", "a", "\"">>,
      <<"\"", "a", "\"", " ", ",", "\"", "a", "\"">>,
      <<"\"", "a", "\"", "a", ",", "\"", "a", "\"">>,
      <<"\"", "a", "\"", ",", "a">> }

Bodies == UNION {[1..n -> BodyChars] : n \in 0..MaxBody} \cup LongBodies

StringVectorOpen == VecDecl(kStringTypeString, <<"x">>, <<"[">>)

\* the file of `string[] x = [` body `]`
StringVectorFile(body) == Text(<<StringVectorOpen \o body \o <<"]">>>>)

InitStrings == InitWith({StringVectorFile(body) : body \in Bodies})

SpecStrings == InitStrings /\ [][Next]_vars

(***************************************************************************)
(* Files that declare one vector of three elements, valid or not           *)
(***************************************************************************)

\* an element that the parser of the type accepts
GoodElem(type) ==
    IF type = kStringTypeString THEN <<"\"", "a", "\"">>
    ELSE IF type = kIntTypeString THEN <<"1">>
    ELSE IF type = kBoolTypeString THEN <<"t", "r", "u", "e">>
    ELSE <<"1", ".", "5">>

\* an element that is no value of the type
BadElem(type) == IF type = kStringTypeString THEN <<"a">> ELSE <<"x">>

\* the three elements, the k-th one valid when good[k]
MixedElems(type, good) == [k \in 1..3 |-> IF good[k] THEN GoodElem(type) ELSE BadElem(type)]

InitMixed ==
    InitWith({VectorFile(type, MixedElems(type, good), FALSE) :
                 type \in Types, good \in [1..3 -> BOOLEAN]})

SpecMixed == InitMixed /\ [][Next]_vars

(***************************************************************************)
(* Files that declare one vector of ints or bools                          *)
(***************************************************************************)

PlainChars == {"1", ",", " ", "]"}

\* texts between the brackets with two elements
LongPlainBodies ==
    { <<"1", "]", ",", " ", "2">>,
      <<"1", ",", " ", "2">>,
      <<"1", ",", ",", "2">>,
      <<"1", ",", " ", "2", ",", " ", "1">> }

PlainBodies == UNION {[1..n -> PlainChars] : n \in 0..MaxBody} \cup LongPlainBodies

IntVectorOpen == VecDecl(kIntTypeString, <<"x">>, <<"[">>)

\* the file of `int[] x = [` body `]`
IntVectorFile(body) == Text(<<IntVectorOpen \o body \o <<"]">>>>)

\* the file of `bool[] x = [true], false]`
BoolBracketFile == Text(<<VecDecl(kBoolTypeString, <<"x">>, <<"[", "t", "r", "u", "e", "]", ",", " ", "f", "a", "l", "s", "e", "]">>)>>)

InitPlain == InitWith({IntVectorFile(body) : body \in PlainBodies} \cup {BoolBracketFile})

SpecPlain == InitPlain /\ [][Next]_vars

(***************************************************************************)
(* Properties                                                              *)
(* What a declaration is on its own: its name, whether the constructor     *)
(* accepts it into an empty store, and the variable it then stores.        *)
(***************************************************************************)

LineName(line) == ReadTokens(line).name_string

Accepted(line) == \A ub \in BOOLEAN : ~ParseDeclaration(line, <<>>, 1, ub).failed

Declared(line) == ParseDeclaration(line, <<>>, 1, FALSE).variable

\* line k is bad: not accepted on its own, or its name is that of an earlier line
BadAt(lines, k) ==
    \/ ~Accepted(lines[k])
    \/ \E j \in 1..(k - 1) : LineName(lines[j]) = LineName(lines[k])

\* the index of the first bad line, Len(lines) + 1 when there is none
FirstBad(lines) ==
    CHOOSE k \in 1..(Len(lines) + 1) :
        /\ k = Len(lines) + 1 \/ BadAt(lines, k)
        /\ \A j \in 1..(k - 1) : ~BadAt(lines, j)

\* the store that holds the first n declarations, each as written
StoreOf(lines, n) ==
    [name \in {LineName(lines[j]) : j \in 1..n} |->
        Declared(lines[CHOOSE j \in 1..n : LineName(lines[j]) = name])]

\* construction has stopped before line k, with one error when k is a line
HaltedAt(lines, k) ==
    /\ Len(_error_messages) = IF k <= Len(lines) THEN 1 ELSE 0
    /\ _var_map = StoreOf(lines, k - 1)
    /\ _line_number = Min(k, Len(lines))

\* C1: after construction from a readable file the error log holds one
\* message if some declaration is bad and none otherwise, the store holds
\* exactly the declarations before the first bad one, and neither the bad
\* declaration nor a later one is stored.
C1_HaltOnFirstError ==
    (pc = "done" /\ file.openable /\ calls = 0)
        => HaltedAt(input_lines, FirstBad(input_lines))

\* a file of three declarations whose second is bad and whose third would be
\* accepted: construction has stopped with the first stored and the third not
C1_Witness ==
    /\ pc = "done" /\ file.openable /\ calls = 0
    /\ Len(input_lines) = 3
    /\ FirstBad(input_lines) = 2
    /\ Accepted(input_lines[3])
    /\ LineName(input_lines[3]) \notin DOMAIN _var_map
    /\ LineName(input_lines[1]) \in DOMAIN _var_map
    /\ Len(_error_messages) = 1

\* line k declares again a name that one of the accepted lines before it
\* declares
DuplicateAt(lines, k) ==
    /\ FirstBad(lines) = k
    /\ \E j \in 1..(k - 1) : LineName(lines[j]) = LineName(lines[k])

\* C2: when a declaration names a variable that an earlier declaration
\* declared (with the same or another type or arity), construction records
\* exactly one error and stops there: every variable declared before the
\* duplicate is in the store with its original type and value, so the
\* duplicate has overwritten nothing, and no later declaration is stored.
C2_DuplicateName ==
    (pc = "done" /\ file.openable /\ calls = 0) =>
        \A k \in 1..Len(input_lines) :
            DuplicateAt(input_lines, k) =>
                /\ _line_number = k
                /\ Len(_error_messages) = 1
                /\ \A j \in 1..(k - 1) :
                       /\ CheckVariableExists(_var_map, LineName(input_lines[j]),
                                              Declared(input_lines[j]).type_string,
                                              Declared(input_lines[j]).is_vector)
                       /\ _var_map[LineName(input_lines[j])] = Declared(input_lines[j])
                /\ DOMAIN _var_map = {LineName(input_lines[j]) : j \in 1..(k - 1)}

\* x is declared an int, then a vector of strings, then y is declared:
\* construction has stopped at the second line
C2_Witness ==
    /\ pc = "done" /\ file.openable /\ calls = 0
    /\ Len(input_lines) = 3
    /\ DuplicateAt(input_lines, 2)
    /\ Accepted(input_lines[2])
    /\ Declared(input_lines[1]).type_string # Declared(input_lines[2]).type_string
    /\ Declared(input_lines[1]).is_vector # Declared(input_lines[2]).is_vector
    /\ LineName(input_lines[3]) # LineName(input_lines[1])
    /\ _var_map[LineName(input_lines[1])] = Declared(input_lines[1])

\* the element type and the arity a getter asks for, and the value of its
\* `return {}`
GetterType(op) ==
    IF op \in {"GetStringValue", "GetStringVector"} THEN kStringTypeString
    ELSE IF op \in {"GetIntValue", "GetIntVector"} THEN kIntTypeString
    ELSE IF op \in {"GetFloatValue", "GetFloatVector"} THEN kFloatTypeString
    ELSE IF op \in {"GetDoubleValue", "GetDoubleVector"} THEN kDoubleTypeString
    ELSE kBoolTypeString

GetterIsVector(op) ==
    op \in {"GetStringVector", "GetIntVector", "GetFloatVector", "GetDoubleVector",
            "GetBoolVector"}

ZeroValue(op) ==
    IF op = "GetIntValue" THEN 0
    ELSE IF op \in {"GetFloatValue", "GetDoubleValue"} THEN Zero
    ELSE IF op = "GetBoolValue" THEN FALSE
    ELSE <<>>

\* C6: construction from a path that cannot be opened ends with exactly one
\* error, the opening error, and an empty store, and every getter call made
\* afterwards appends an error and returns the zero value of its type.
C6_UnopenableFile ==
    ~file.openable =>
        /\ pc \in {"new", "done"}
        /\ DOMAIN _var_map = {}
        /\ pc = "done" =>
              /\ Len(_error_messages) = 1 + calls
              /\ _error_messages[1] = OpenErrorMessage
              /\ calls > 0 =>
                    /\ last.ret = ZeroValue(last.op)
                    /\ _error_messages[Len(_error_messages)] =
                           NotFoundMessage(last.name, GetterType(last.op),
                                           GetterIsVector(last.op))

\* a vector getter has been called on the parser of an unopenable file
C6_Witness ==
    /\ ~file.openable
    /\ pc = "done"
    /\ calls = 1
    /\ last.op = "GetBoolVector"
    /\ last.ret = <<>>
    /\ Len(_error_messages) = 2

\* the store holds name with the type and the arity the getter op asks for
Matches(op, name) ==
    /\ name \in DOMAIN _var_map
    /\ _var_map[name].type_string = GetterType(op)
    /\ _var_map[name].is_vector = GetterIsVector(op)

\* C3: a getter called with a name that is absent from the store, or stored
\* under another type, or stored with the other arity, appends one error to
\* the error log and returns the zero value of its type, never a value
\* parsed from the stored expression.
C3_GetterMismatch ==
    [][(calls' = calls + 1 /\ ~Matches(last'.op, last'.name)) =>
          /\ Len(_error_messages') = Len(_error_messages) + 1
          /\ SubSeq(_error_messages', 1, Len(_error_messages)) = _error_messages
          /\ last'.ret = ZeroValue(last'.op)]_vars

\* GetFloatValue has been called on x, declared `int x = 5`: it has logged
\* an error and returned zero
C3_Witness ==
    /\ calls = 1
    /\ last.op = "GetFloatValue"
    /\ last.name = <<"x">>
    /\ <<"x">> \in DOMAIN _var_map
    /\ _var_map[<<"x">>] = [type_string |-> kIntTypeString, is_vector |-> FALSE,
                            expression_string |-> <<"5">>]
    /\ last.ret = Zero
    /\ Len(_error_messages) = 1

\* the scalar getter of a type
ScalarGetter(type) ==
    IF type = kStringTypeString THEN "GetStringValue"
    ELSE IF type = kIntTypeString THEN "GetIntValue"
    ELSE IF type = kFloatTypeString THEN "GetFloatValue"
    ELSE IF type = kDoubleTypeString THEN "GetDoubleValue"
    ELSE "GetBoolValue"

\* the file declares x as `type x = value`, value a literal of the type
IsLiteralFile(type) == \E value \in Literals(type) : file.text = ScalarFile(type, value)

\* the literal the file `type x = value` is written with
LiteralOf(type) == CHOOSE value \in Literals(type) : file.text = ScalarFile(type, value)

\* C4: for a declaration `type x = value` whose value is a valid literal of
\* the type, construction records no error and stores x, and the scalar
\* getter of the type called with x returns what the type's Value Parser
\* yields on value itself, without appending an error.
C4_ScalarRoundTrip ==
    /\ [](\A type \in Types :
            (pc = "done" /\ calls = 0 /\ file.openable /\ IsLiteralFile(type)) =>
                /\ _error_messages = <<>>
                /\ Matches(ScalarGetter(type), <<"x">>))
    /\ [][(calls' = calls + 1 /\ last'.name = <<"x">> /\ ~GetterIsVector(last'.op)
              /\ file.openable /\ IsLiteralFile(GetterType(last'.op))) =>
             /\ last'.ret = ParseValue(LiteralOf(GetterType(last'.op)),
                                       GetterType(last'.op)).value
             /\ ~ParseValue(LiteralOf(GetterType(last'.op)), GetterType(last'.op)).error_flag
             /\ _error_messages' = _error_messages]_vars

\* `int x = -7` has been read and GetIntValue("x") has returned -7 with the
\* error log still empty
C4_Witness ==
    /\ file.openable
    /\ file.text = ScalarFile(kIntTypeString, <<"-", "7">>)
    /\ calls = 1
    /\ last.op = "GetIntValue"
    /\ last.name = <<"x">>
    /\ last.ret = -7
    /\ _error_messages = <<>>

\* the vector getter of a type
VectorGetter(type) ==
    IF type = kStringTypeString THEN "GetStringVector"
    ELSE IF type = kIntTypeString THEN "GetIntVector"
    ELSE IF type = kFloatTypeString THEN "GetFloatVector"
    ELSE IF type = kDoubleTypeString THEN "GetDoubleVector"
    ELSE "GetBoolVector"

\* the file declares x as `type[] x = [v0, v1, ..., vn]`, each vi a literal of
\* the type
IsLiteralVectorFile(type) ==
    \E values \in ElemSeqs(ElemLiterals(type)) : file.text = VectorFile(type, values, FALSE)

\* the elements the file `type[] x = [v0, v1, ..., vn]` is written with
ElementsOf(type) ==
    CHOOSE values \in ElemSeqs(ElemLiterals(type)) :
        file.text = VectorFile(type, values, FALSE)

\* the parsed values of the elements, in the order written
ParsedElements(type, values) == [i \in 1..Len(values) |-> ParseValue(values[i], type).value]

\* C5: for a declaration `type[] x = [v0, v1, ..., vn]` whose elements are
\* valid literals of the type, `[]` included, construction records no error
\* and the vector getter of the type returns a sequence of the same length
\* whose i-th element is the parsed value of vi, without appending an error.
C5_VectorRoundTrip ==
    /\ [](\A type \in Types :
            (pc = "done" /\ calls = 0 /\ file.openable /\ IsLiteralVectorFile(type)) =>
                /\ _error_messages = <<>>
                /\ Matches(VectorGetter(type), <<"x">>))
    /\ [][(calls' = calls + 1 /\ last'.name = <<"x">> /\ GetterIsVector(last'.op)
              /\ file.openable /\ IsLiteralVectorFile(GetterType(last'.op))) =>
             /\ Len(last'.ret) = Len(ElementsOf(GetterType(last'.op)))
             /\ last'.ret = ParsedElements(GetterType(last'.op),
                                           ElementsOf(GetterType(last'.op)))
             /\ _error_messages' = _error_messages]_vars

\* `bool[] x = [true, false]` has been read and GetBoolVector("x") has
\* returned the two values in order with the error log still empty
C5_Witness ==
    /\ file.openable
    /\ file.text = VectorFile(kBoolTypeString,
                              <<<<"t", "r", "u", "e">>, <<"f", "a", "l", "s", "e">>>>, FALSE)
    /\ calls = 1
    /\ last.op = "GetBoolVector"
    /\ last.name = <<"x">>
    /\ last.ret = <<TRUE, FALSE>>
    /\ _error_messages = <<>>

\* at least two characters, the first and the last a quote, no quote between
WellQuoted(value) ==
    /\ Len(value) >= 2
    /\ value[1] = "\""
    /\ value[Len(value)] = "\""
    /\ \A k \in 2..(Len(value) - 1) : value[k] # "\""

\* C9: a string value expression is valid exactly when it has at least two
\* characters, begins and ends with a quote and has no quote in between, and
\* its parsed value is then what lies between the two quotes; so
\* `string x = value` is stored, and read back as that interior, when value
\* has this form, and is rejected with an error and not stored otherwise
\* (value unquoted, or with an embedded quote).
C9_StringValidity ==
    \A value \in ScalarValues :
        (/\ ParseString(value).error_flag = ~WellQuoted(value)
         /\ WellQuoted(value) =>
                ParseString(value).value = SubSeq(value, 2, Len(value) - 1))
        /\ ((file.openable /\ file.text = ScalarFile(kStringTypeString, value)
                /\ pc = "done") =>
               IF WellQuoted(value)
               THEN /\ Matches("GetStringValue", <<"x">>)
                    /\ calls = 0 => _error_messages = <<>>
                    /\ (calls > 0 /\ last.op = "GetStringValue" /\ last.name = <<"x">>) =>
                           last.ret = SubSeq(value, 2, Len(value) - 1)
               ELSE /\ DOMAIN _var_map = {}
                    /\ calls = 0 => Len(_error_messages) = 1)

\* `string x = "a"b"` has been read: an error is logged and x is not stored
C9_Witness ==
    /\ file.openable
    /\ file.text = ScalarFile(kStringTypeString, <<"\"", "a", "\"", "b", "\"">>)
    /\ pc = "done"
    /\ calls = 0
    /\ Len(_error_messages) = 1
    /\ <<"x">> \notin DOMAIN _var_map

\* the file is the declaration d of x written with the given whitespace
IsSpacedFile(d, lead, g1, g2, g3, tab) ==
    /\ file.openable
    /\ file.text = Text(<<Spaced(d[1], <<"x">>, d[2], lead, g1, g2, g3, tab)>>)

\* construction has ended as it does for d written `type x = value`: x is
\* stored with the same type and value and no error is logged, and
\* GetStringValue returns the interior of a string value with its whitespace
SameAsPlain(d) ==
    /\ Accepted(Decl(d[1], <<"x">>, d[2]))
    /\ DOMAIN _var_map = {<<"x">>}
    /\ _var_map[<<"x">>] = Declared(Decl(d[1], <<"x">>, d[2]))
    /\ calls = 0 => _error_messages = <<>>
    /\ (calls > 0 /\ last.op = "GetStringValue" /\ last.name = <<"x">>
           /\ d[1] = kStringTypeString) =>
              last.ret = SubSeq(d[2], 2, Len(d[2]) - 1)

\* construction has ended and no getter has been called yet, or the one
\* called last is GetStringValue("x")
Settled ==
    /\ pc = "done"
    /\ calls = 0 \/ (last.op = "GetStringValue" /\ last.name = <<"x">>)

\* C7 as stated: declarations that differ only in the amount of whitespace
\* between their tokens, none at all around the `=` included, parse
\* identically: each is accepted and stores the same name, type and value, and
\* whitespace inside a quoted string value is preserved.
C7_WhitespaceInsensitive ==
    Settled =>
        \A d \in SpacedDecls, lead \in 0..1, g1 \in 1..MaxGap, g2 \in 0..MaxGap,
           g3 \in 0..MaxGap, tab \in BOOLEAN :
            IsSpacedFile(d, lead, g1, g2, g3, tab) => SameAsPlain(d)

\* C7 (amended): declarations that differ only in the amount of whitespace
\* between the type, the name, the `=` and the value, with at least one
\* space or tab in each place, parse identically: each is accepted and
\* stores the same name, type and value; a declaration with no whitespace
\* before or after the `=` is rejected with an error and stores nothing;
\* whitespace inside a quoted string value is preserved in the value the
\* getter returns.
C7_WhitespaceBetweenTokens ==
    Settled =>
        \A d \in SpacedDecls, lead \in 0..1, g1 \in 1..MaxGap, g2 \in 0..MaxGap,
           g3 \in 0..MaxGap, tab \in BOOLEAN :
            IsSpacedFile(d, lead, g1, g2, g3, tab) =>
                IF g2 >= 1 /\ g3 >= 1 THEN SameAsPlain(d)
                ELSE /\ DOMAIN _var_map = {}
                     /\ calls = 0 => Len(_error_messages) = 1

\* `string x = "a  b"` written with a leading tab and two tabs between its
\* tokens has been read, and GetStringValue("x") has returned a, two spaces, b
C7_Witness ==
    /\ IsSpacedFile(<<kStringTypeString, <<"\"", "a", " ", " ", "b", "\"">>>>,
                    1, 2, 2, 2, TRUE)
    /\ pc = "done"
    /\ calls = 1
    /\ last.op = "GetStringValue"
    /\ last.name = <<"x">>
    /\ last.ret = <<"a", " ", " ", "b">>
    /\ _error_messages = <<>>

\* C8: a vector declaration whose list ends with a comma before the closing
\* bracket is rejected for every element type: construction records an error
\* and the variable is not stored.
C8_TrailingCommaRejected ==
    \A type \in Types :
        \A values \in ElemSeqs(Elems(type)) \ {<<>>} :
            (pc = "done" /\ file.openable /\ file.text = VectorFile(type, values, TRUE)) =>
                /\ <<"x">> \notin DOMAIN _var_map
                /\ Len(_error_messages) >= 1

\* the numeric types
NumericTypes == {kIntTypeString, kFloatTypeString, kDoubleTypeString}

\* C10: an int, float or double value expression is accepted only if the
\* whole of it is a numeric literal of the type: a scalar value that is not a
\* literal of the type, and a vector with an element that is a literal
\* followed by garbage, is rejected with an error and not stored.
C10_NumericAllOrNothing ==
    \A type \in NumericTypes :
        /\ \A value \in ScalarValues \ Literals(type) :
               (pc = "done" /\ file.openable /\ file.text = ScalarFile(type, value)) =>
                   /\ <<"x">> \notin DOMAIN _var_map
                   /\ Len(_error_messages) >= 1
        /\ \A values \in ElemSeqs(Elems(type)) :
               (/\ \E i \in 1..Len(values) : values[i] = ElemGarbage(type)
                /\ pc = "done" /\ file.openable
                /\ file.text = VectorFile(type, values, FALSE)) =>
                   /\ <<"x">> \notin DOMAIN _var_map
                   /\ Len(_error_messages) >= 1

\* construction from a readable file has ended and no getter has been called
\* yet, or the one called last was called with x
AfterConstruction ==
    /\ pc = "done"
    /\ file.openable
    /\ calls = 0 \/ last.name = <<"x">>

\* the store holds x as the declaration base alone declares it and nothing
\* else, no error was logged by construction, and a getter of x's type and
\* arity returns what the parser yields on the expression of base
StoredAs(base) ==
    /\ Accepted(base)
    /\ input_lines = <<base>>
    /\ DOMAIN _var_map = {<<"x">>}
    /\ _var_map[<<"x">>] = Declared(base)
    /\ calls = 0 => _error_messages = <<>>
    /\ (calls > 0 /\ Matches(last.op, <<"x">>)) =>
          last.ret = IF Declared(base).is_vector
                     THEN ParseVectorOf(Declared(base).expression_string,
                                        Declared(base).type_string, FALSE).value
                     ELSE ParseValue(Declared(base).expression_string,
                                     Declared(base).type_string).value

\* C11: on every line the text from the first `#` outside double quotes to
\* the end of the line is discarded whatever it contains, so a declaration
\* followed by a comment parses to the same variable as the declaration
\* alone, and a `#` inside a quoted string stays part of the string value.
C11_CommentTransparency ==
    AfterConstruction =>
        /\ \A base \in CommentBases, gap \in {<<>>, <<" ">>}, comment \in Comments,
              above \in BOOLEAN :
               file.text = CommentFile(base, gap, comment, above) => StoredAs(base)
        /\ (/\ file.text = CommentFile(Decl(kStringTypeString, <<"x">>,
                                            <<"\"", "a", "#", "b", "\"">>),
                                       <<" ">>, <<"#", " ", "c">>, FALSE)
            /\ calls > 0
            /\ last.op = "GetStringValue") => last.ret = <<"a", "#", "b">>

\* `string x = "a#b" #"q" [b] # c` has been read and GetStringValue("x") has
\* returned a#b
C11_Witness ==
    /\ file.openable
    /\ file.text = CommentFile(Decl(kStringTypeString, <<"x">>, <<"\"", "a", "#", "b", "\"">>),
                               <<" ">>,
                               <<"#", "\"", "q", "\"", " ", "[", "b", "]", " ", "#", " ", "c">>,
                               FALSE)
    /\ pc = "done"
    /\ calls = 1
    /\ last.op = "GetStringValue"
    /\ last.name = <<"x">>
    /\ last.ret = <<"a", "#", "b">>
    /\ _error_messages = <<>>

\* C12: the lines of a vector literal that is not closed yet are joined into
\* one declaration before parsing, so a vector declaration broken after its
\* commas, with comments, blank lines or indentation in between, is accepted
\* and yields the same sequence as `[v1, v2, v3]` on one line; a bracket
\* inside a quoted string opens and closes no vector.
C12_MultiLineVectors ==
    AfterConstruction =>
        /\ \A type \in Types :
             \A values \in ElemTriples(type), sep1 \in Breaks, sep2 \in Breaks :
               file.text = BrokenVector(type, values, sep1, sep2) =>
                   /\ Len(input_lines) = 1
                   /\ DOMAIN _var_map = {<<"x">>}
                   /\ Matches(VectorGetter(type), <<"x">>)
                   /\ calls = 0 => _error_messages = <<>>
                   /\ (calls > 0 /\ last.op = VectorGetter(type)) =>
                          /\ last.ret = ParsedElements(type, values)
                          /\ last.ret = ParseVectorOf(VectorLiteral(values, FALSE),
                                                      type, FALSE).value
        /\ file.text = BracketInString =>
               /\ Len(input_lines) = 2
               /\ DOMAIN _var_map = {<<"x">>, <<"y">>}
               /\ calls = 0 => _error_messages = <<>>
        /\ file.text = BracketsInElements =>
               /\ Len(input_lines) = 1
               /\ Matches("GetStringVector", <<"x">>)
               /\ (calls > 0 /\ last.op = "GetStringVector") =>
                      last.ret = <<<<"a", "]">>, <<"[", "b">>>>

\* an int vector written over three lines, with a comment after the first
\* comma and a blank line after the second, has been read and
\* GetIntVector("x") has returned its three values
C12_Witness ==
    /\ file.openable
    /\ \E values \in ElemTriples(kIntTypeString) :
           /\ file.text = BrokenVector(kIntTypeString, values,
                                       <<" ", "#", " ", "c", "\n">>,
                                       <<"\n", "\n", " ", " ">>)
           /\ calls = 1
           /\ last.op = "GetIntVector"
           /\ last.name = <<"x">>
           /\ last.ret = ParsedElements(kIntTypeString, values)
           /\ Len(last.ret) = 3
    /\ Len(input_lines) = 1
    /\ _error_messages = <<>>

\* the items of error_string between the line breaks, when each line holds
\* exactly one item
OnePerLine(error_string, messages) ==
    /\ Len(error_string) = IF messages = <<>> THEN 0 ELSE 2 * Len(messages) - 1
    /\ \A k \in 1..Len(messages) : error_string[2 * k - 1] = messages[k]
    /\ \A k \in 1..(Len(messages) - 1) : error_string[2 * k] = Newline

\* C13: the error log is append-only over any sequence of operations:
\* ErrorCount never decreases, the messages already recorded keep their
\* content and order, every failed getter call appends exactly one message,
\* every successful getter call appends none, and ErrorString returns all
\* recorded messages in recording order, one per line.
C13_ErrorLogAppendOnly ==
    /\ [](/\ OnePerLine(ErrorString(_error_messages), _error_messages)
          /\ \A k \in 1..Len(_error_messages) : _error_messages[k] # Newline)
    /\ [][/\ ErrorCount(_error_messages') >= ErrorCount(_error_messages)
          /\ SubSeq(_error_messages', 1, Len(_error_messages)) = _error_messages
          /\ (calls' = calls + 1) =>
                IF Matches(last'.op, last'.name)
                THEN _error_messages' = _error_messages
                ELSE ErrorCount(_error_messages') = ErrorCount(_error_messages) + 1]_vars

\* construction has logged one error and a failed getter call a second one:
\* ErrorString holds both, in this order, on two lines
C13_Witness ==
    /\ pc = "done"
    /\ file.openable
    /\ calls = 1
    /\ ErrorCount(_error_messages) = 2
    /\ _error_messages[1].prefix = "Parsing error in file"
    /\ _error_messages[2] = NotFoundMessage(last.name, GetterType(last.op),
                                            GetterIsVector(last.op))
    /\ ErrorString(_error_messages) = <<_error_messages[1], Newline, _error_messages[2]>>

\* what the getter op returns when called with name on the store: the value
\* its parser yields on the stored expression, or the zero value
ReturnOf(op, name) ==
    IF ~Matches(op, name) THEN ZeroValue(op)
    ELSE IF GetterIsVector(op)
         THEN ParseVectorOf(_var_map[name].expression_string, GetterType(op), FALSE).value
         ELSE ParseValue(_var_map[name].expression_string, GetterType(op)).value

Defects(d) ==
    (IF d.type_token \in {<<"f", "o", "o">>, <<"f", "o", "o", "[", "]">>} THEN {1} ELSE {})
        \cup (IF d.name = <<"x">> THEN {2} ELSE {})
        \cup (IF d.equals # <<"=">> THEN {3} ELSE {})
        \cup ({d.value.defect} \ {0})

\* the error the constructor records for the failure of check k on d
DefectError(d, k) ==
    IF k = 1 THEN "invalid type"
    ELSE IF k = 2 THEN "redefinition of entity"
    ELSE IF k = 3 THEN "expected =, encountered"
    ELSE IF k = 4
    THEN IF d.type_token = kStringTypeString THEN "string value must be enclosed in quotes"
         ELSE "vector must be enclosed in []"
    ELSE "could not parse as type"

\* C15: within one declaration the checks run in the order unknown type,
\* duplicate name, missing `=`, malformed value delimiters, value parse
\* failure, and the variable is inserted only after all of them pass; for a
\* declaration with several defects the single error recorded is that of the
\* earliest failing check in this order.
C15_CheckOrder ==
    (pc = "done" /\ file.openable /\ calls = 0) =>
        \A d \in DefectDecls :
            file.text = DefectFile(d) =>
                IF Defects(d) = {}
                THEN /\ _error_messages = <<>>
                     /\ DOMAIN _var_map = {<<"x">>, <<"y">>}
                     /\ _var_map[<<"y">>].expression_string = d.value.text
                ELSE /\ DOMAIN _var_map = {<<"x">>}
                     /\ Len(_error_messages) = 1
                     /\ _error_messages[1].line = 2
                     /\ \E k \in Defects(d) :
                           /\ \A j \in Defects(d) : k <= j
                           /\ _error_messages[1].what = DefectError(d, k)

\* `foo x : abc` after `int x = 1`, which fails the checks of the type, the
\* name, the `=` and the parse, has been read: the type error is recorded
C15_Witness ==
    /\ pc = "done"
    /\ file.openable
    /\ file.text = DefectFile([type_token |-> <<"f", "o", "o">>, name |-> <<"x">>,
                               equals |-> <<":">>,
                               value |-> [text |-> <<"a", "b", "c">>, defect |-> 5]])
    /\ Len(_error_messages) = 1
    /\ _error_messages[1].what = "invalid type"
    /\ DOMAIN _var_map = {<<"x">>}

\* the text between the brackets of the file of SpecStrings
BodyOf(text) == SubSeq(text, Len(StringVectorOpen) + 1, Len(text) - 2)

RECURSIVE Machine(_, _, _)
\* the state machine over the characters of body from position k on: its
\* state is "expect-new-value", "in-quotes" or "expect-comma", and it yields
\* TRUE when it meets a character that its state does not allow
Machine(body, k, state) ==
    IF k > Len(body) THEN FALSE
    ELSE IF state = "expect-new-value"
    THEN IF body[k] = "\"" THEN Machine(body, k + 1, "in-quotes")
         ELSE IF body[k] \in {" ", "\t"} THEN Machine(body, k + 1, state)
         ELSE TRUE
    ELSE IF state = "in-quotes"
    THEN Machine(body, k + 1, IF body[k] = "\"" THEN "expect-comma" ELSE state)
    ELSE IF body[k] = "," THEN Machine(body, k + 1, "expect-new-value")
    ELSE TRUE

\* the number of quotes among the first k characters of body
Quotes(body, k) == Cardinality({j \in 1..k : body[j] = "\""})

\* a closing quote of body is followed by a character other than a comma
DataAfterClosingQuote(body) ==
    \E k \in 1..(Len(body) - 1) :
        body[k] = "\"" /\ Quotes(body, k) % 2 = 0 /\ body[k + 1] # ","

\* a character that is neither whitespace nor a comma stands outside quotes
UnquotedElement(body) ==
    \E k \in 1..Len(body) :
        body[k] \notin {"\"", ",", " "} /\ Quotes(body, k) % 2 = 0

\* construction has rejected the declaration of x
RejectedValue ==
    /\ _var_map = <<>>
    /\ Len(_error_messages) = 1

\* every quote of the file's vector has its closing quote
QuotesClosed == Quotes(BodyOf(file.text), Len(BodyOf(file.text))) % 2 = 0

\* C16: the string-vector splitter is a state machine over the characters
\* between the brackets with the states expect-new-value, in-quotes and
\* expect-comma: in expect-new-value only whitespace or an opening `"` is
\* allowed, in expect-comma only `,`, and any other character sets the error
\* flag; so a string vector with an unquoted element, a missing comma between
\* elements, or any data (whitespace included) after a closing quote other
\* than `,` is rejected at construction.
C16_StringSplitter ==
    (pc = "done" /\ file.openable /\ calls = 0) =>
        /\ \A ub \in BOOLEAN :
              SplitVectorExpression(<<"[">> \o BodyOf(file.text) \o <<"]">>,
                                    kStringTypeString, ub).error_flag
                  = Machine(BodyOf(file.text), 1, "expect-new-value")
        /\ Machine(BodyOf(file.text), 1, "expect-new-value") => RejectedValue
        /\ QuotesClosed =>
              IF Machine(BodyOf(file.text), 1, "expect-new-value")
              THEN _error_messages[1].what = "could not parse as type"
              ELSE DOMAIN _var_map = {<<"x">>} /\ _error_messages = <<>>
        /\ (DataAfterClosingQuote(BodyOf(file.text)) \/ UnquotedElement(BodyOf(file.text)))
               => RejectedValue

\* `string[] x = ["a" "a"]`, two elements with no comma between them, has
\* been read and rejected
C16_Witness ==
    /\ pc = "done"
    /\ file.openable
    /\ file.text = StringVectorFile(<<"\"", "a", "\"", " ", "\"", "a", "\"">>)
    /\ DataAfterClosingQuote(BodyOf(file.text))
    /\ RejectedValue
    /\ _error_messages[1].what = "could not parse as type"

\* the index of the first element that is not valid
FirstInvalid(good) == CHOOSE n \in 1..3 : ~good[n] /\ \A j \in 1..(n - 1) : good[j]

\* C17: vector parsing fails fast: the first element that fails its scalar
\* parser ends the parse of the vector with the error flag set, and nothing
\* of what was parsed before it is kept, so a vector declaration with an
\* invalid element is rejected as a whole and not stored, and a vector getter
\* never returns part of a declared list.
C17_VectorFailFast ==
    (pc = "done" /\ file.openable) =>
        \A type \in Types, good \in [1..3 -> BOOLEAN] :
            file.text = VectorFile(type, MixedElems(type, good), FALSE) =>
                IF \A k \in 1..3 : good[k]
                THEN /\ Matches(VectorGetter(type), <<"x">>)
                     /\ (calls > 0 /\ last.op = VectorGetter(type) /\ last.name = <<"x">>)
                            => Len(last.ret) = 3
                ELSE /\ _var_map = <<>>
                     /\ calls = 0 =>
                            /\ Len(_error_messages) = 1
                            /\ _error_messages[1].what = "could not parse as type"
                     /\ calls > 0 => last.ret = ZeroValue(last.op)
                     /\ \A ub \in BOOLEAN :
                            /\ ParseVectorOf(VectorLiteral(MixedElems(type, good), FALSE),
                                             type, ub).error_flag
                            /\ ~CheckParseVector(VectorLiteral(MixedElems(type, good), FALSE),
                                                 type, ub)
                            /\ Len(ParseVectorOf(VectorLiteral(MixedElems(type, good), FALSE),
                                                 type, ub).value) <= FirstInvalid(good)

\* `int[] x = [1, x, 1]` has been read and rejected, and GetIntVector("x")
\* has returned the empty sequence
C17_Witness ==
    /\ pc = "done"
    /\ file.openable
    /\ file.text = VectorFile(kIntTypeString, <<<<"1">>, <<"x">>, <<"1">>>>, FALSE)
    /\ _var_map = <<>>
    /\ calls = 1
    /\ last.op = "GetIntVector"
    /\ last.name = <<"x">>
    /\ last.ret = <<>>
    /\ Len(_error_messages) = 2

\* the parser of the variable's type and arity sets no error flag on its
\* stored expression
ParserAccepts(variable) ==
    IF variable.is_vector
    THEN \A ub \in BOOLEAN :
             ~ParseVectorOf(variable.expression_string, variable.type_string, ub).error_flag
    ELSE ~ParseValue(variable.expression_string, variable.type_string).error_flag

\* C18: in every reachable state each stored variable has a type among
\* string, int, float, double and bool and an expression that the parser of
\* its type and arity accepts; hence the parse a getter runs on a variable
\* whose name, type and arity match never fails.
C18_StoreInvariant ==
    /\ \A name \in DOMAIN _var_map :
          /\ _var_map[name].type_string \in Types
          /\ _var_map[name].is_vector \in BOOLEAN
          /\ ParserAccepts(_var_map[name])
    /\ (calls > 0 /\ Matches(last.op, last.name)) =>
          last.ret = ReturnOf(last.op, last.name)

\* x is stored as a vector of doubles and GetDoubleVector("x") has parsed its
\* two elements again
C18_Witness ==
    /\ pc = "done"
    /\ calls = 1
    /\ last.op = "GetDoubleVector"
    /\ last.name = <<"x">>
    /\ Matches(last.op, last.name)
    /\ Len(last.ret) = 2
    /\ _error_messages = <<>>

\* the text between the brackets of an int vector file of SpecPlain
PlainBodyOf(text) == SubSeq(text, Len(IntVectorOpen) + 1, Len(text) - 2)

\* C19: a non-string vector declaration is accepted only if its expression
\* matches `[` [ value { `,` value } ] `]`: an expression in which `]` occurs
\* before its last character, such as `[1], 2]` or `[true], false]`, is
\* rejected: an error is logged and x is not stored.
C19_InnerBracketRejected ==
    (pc = "done" /\ file.openable /\ calls = 0) =>
        /\ (file.text # BoolBracketFile
              /\ \E k \in 1..Len(PlainBodyOf(file.text)) : PlainBodyOf(file.text)[k] = "]")
             => (_var_map = <<>> /\ Len(_error_messages) = 1)
        /\ file.text = BoolBracketFile => (_var_map = <<>> /\ Len(_error_messages) = 1)

\* C20: scanning never reads outside the string being scanned: every index
\* at which the vector splitter or SkipWhitespace reads a character is at
\* most the length of the string, and the last character of a token is read
\* only when the token is not empty.
C20_ReadsInBounds ==
    (pc = "done" /\ file.openable /\ calls = 0 /\ file.text # BoolBracketFile) =>
        \A k \in 1..Len(SplitReads(<<"[">> \o PlainBodyOf(file.text) \o <<"]">>, 1)) :
            /\ 0 <= SplitReads(<<"[">> \o PlainBodyOf(file.text) \o <<"]">>, 1)[k].index
            /\ SplitReads(<<"[">> \o PlainBodyOf(file.text) \o <<"]">>, 1)[k].index
                   <= SplitReads(<<"[">> \o PlainBodyOf(file.text) \o <<"]">>, 1)[k].size

====
